---- MODULE Spec2Model ----
(***************************************************************************)
(* A model of the rust-dhcp client: the state machine of                   *)
(* Client::poll_next (client/src/client.rs), its macros                    *)
(* (client/src/macros.rs), the Backoff and Forthon timers                  *)
(* (client/src/backoff.rs, client/src/forthon.rs) and the single pending   *)
(* slot of DhcpFramed (framed/src/socket.rs).                              *)
(*                                                                         *)
(* One action is one iteration of the `loop` of Client::poll_next: the     *)
(* poll_complete! at its head (PollComplete, when a datagram is pending)   *)
(* and then the branch of the current DhcpState.  A poll that returns      *)
(* Poll::Pending changes nothing and is a stuttering step.                 *)
(*                                                                         *)
(* client/src/state.rs, client/src/builder.rs and the protocol crate's     *)
(* Message are not among the source files; State::transcend, the request   *)
(* builders and Message::validate follow sections 3, 4.1 and 4.4 of the    *)
(* specification.                                                          *)
(***************************************************************************)
EXTENDS Integers, Sequences, FiniteSets, TLC

\* ------------------------------------------------------------------ bounds
\* Transaction ids are 0..MaxXid (the code draws a random u32).
MaxXid == 1
\* Backoff::poll_next doubles `current` with no cap; the model stops ticking a
\* backoff timer whose doubled `current` would exceed this.
MaxBackoffCurrent == 256
\* The longest deadline (seconds) a Forthon polled on its own is created with.
MaxDeadline == 400
\* The number of datagrams that reach the server's socket.
MaxDatagrams == 3

\* --------------------------------------------------------------- constants
\* backoff.rs: const AMPLITUDE: i32 = 1
AMPLITUDE == 1
\* Section 4.4.2: the backoff starts at 4 s and is capped at 64 s.
BACKOFF_TIMEOUT_INITIAL == 4
BACKOFF_TIMEOUT_MAXIMAL == 64
\* Section 4.4.2: the halving timer's minimal sleep is 60 s.
FORTHON_TIMEOUT_MINIMAL == 60
\* dhcp_protocol::DHCP_PORT_SERVER
DHCP_PORT_SERVER == 67
\* dhcp_protocol::DHCP_PORT_CLIENT
DHCP_PORT_CLIENT == 68

\* ------------------------------------------------------------------ values
None == [some |-> FALSE]
Some(v) == [some |-> TRUE, v |-> v]

Xids == 0..MaxXid
\* IPv4 addresses: the limited broadcast address, one server, two leasable
\* addresses.
BROADCAST == 255
ServerAddrs == {2}
ClientAddrs == {100, 101}
\* Lease times (seconds) a server may grant: the 60 s of the integration test
\* and one long enough for the halving timers to tick more than once.
LeaseTimes == {60, 1920}

DhcpStates ==
    {"Init", "Selecting", "SelectingSent", "Requesting", "RequestingSent",
     "InitReboot", "Rebooting", "RebootingSent", "Bound", "Renewing",
     "RenewingSent", "Rebinding", "RebindingSent"}

\* ---------------------------------------------------------------- messages
\* A received message.  `wellformed` stands for every check of
\* Message::validate other than the presence of the message type (magic
\* cookie, hardware type and length, option lengths).
Response(wf, ty, x, yi, sid, lt, ro, sr, cl) ==
    [wellformed |-> wf, dhcp_message_type |-> ty, transaction_id |-> x,
     your_ip_address |-> yi,
     server_ip_address |-> IF sid.some THEN sid.v ELSE 0,
     dhcp_server_id |-> sid, address_time |-> lt,
     subnet_mask |-> None, domain_name_servers |-> None,
     routers |-> ro, static_routes |-> sr, classless_static_routes |-> cl]

\* The routers, static-routes, classless-static-routes, subnet-mask and
\* domain-name-server options an Ack may carry, each absent or present.
AckOptions ==
    {<<None, None, None, None, None>>,
     <<Some(1), None, None, Some(24), None>>,
     <<Some(1), Some(<<3, 1>>), None, Some(24), Some(8)>>,
     <<None, None, Some(<<0, 0, 1>>), None, Some(8)>>,
     <<Some(1), Some(<<3, 1>>), Some(<<0, 0, 1>>), Some(24), Some(8)>>}
\* Every combination of the five options.
AllAckOptions ==
    {None, Some(1)} \X {None, Some(<<3, 1>>)} \X {None, Some(<<0, 0, 1>>)}
        \X {None, Some(24)} \X {None, Some(8)}

Offers ==
    {Response(TRUE, "DhcpOffer", x, yi, Some(sid), 60, None, None, None) :
        x \in Xids, yi \in ClientAddrs, sid \in ServerAddrs}
Ack(x, m, o) ==
    [Response(TRUE, "DhcpAck", x, m[1], Some(m[2]), m[3], o[1], o[2], o[3])
        EXCEPT !.subnet_mask = o[4], !.domain_name_servers = o[5]]
Acks ==
    {Ack(x, m, o) :
        x \in Xids, m \in ClientAddrs \X ServerAddrs \X LeaseTimes,
        o \in AckOptions}
AllAcks ==
    {Ack(x, m, o) :
        x \in Xids, m \in ClientAddrs \X ServerAddrs \X LeaseTimes,
        o \in AllAckOptions}
Naks ==
    {Response(TRUE, "DhcpNak", x, 0, Some(sid), 0, None, None, None) :
        x \in Xids, sid \in ServerAddrs}
\* Messages of other clients that reach the socket.
Others ==
    {Response(TRUE, "DhcpRequest", x, 0, None, 0, None, None, None) :
        x \in Xids}
\* Messages Message::validate rejects: no message type, or malformed; they may
\* otherwise look like an answer to this client.
Invalids ==
    {Response(FALSE, ty, x, 100, Some(2), 60, None, None, None) :
        ty \in {"DhcpOffer", "DhcpAck", "DhcpNak"}, x \in Xids}
    \cup {Response(TRUE, "NoType", x, 100, Some(2), 60, None, None, None) :
        x \in Xids}
Responses == Offers \cup Acks \cup Naks \cup Others \cup Invalids

\* Message::validate: Ok(message type) or Err.
Message_validate(m) ==
    IF m.wellformed /\ m.dhcp_message_type # "NoType"
    THEN [ok |-> TRUE, dhcp_message_type |-> m.dhcp_message_type]
    ELSE [ok |-> FALSE, dhcp_message_type |-> "NoType"]

\* from_response without the RFC 3442 rule: the routers and static routes of
\* the Ack are kept beside its classless static routes.
from_response_keeps_routers(response) ==
    [your_ip_address |-> response.your_ip_address,
     server_ip_address |-> response.server_ip_address,
     subnet_mask |-> response.subnet_mask,
     domain_name_servers |-> response.domain_name_servers,
     routers |-> response.routers,
     static_routes |-> response.static_routes,
     classless_static_routes |-> response.classless_static_routes]

\* from_response that never passes the routers on.
from_response_drops_routers(response) ==
    [your_ip_address |-> response.your_ip_address,
     server_ip_address |-> response.server_ip_address,
     subnet_mask |-> response.subnet_mask,
     domain_name_servers |-> response.domain_name_servers,
     routers |-> None,
     static_routes |-> IF response.classless_static_routes.some THEN None
                       ELSE response.static_routes,
     classless_static_routes |-> response.classless_static_routes]

\* Configuration::from_response
from_response(response) ==
    LET r1 == IF response.classless_static_routes.some
              THEN [response EXCEPT !.routers = None, !.static_routes = None]
              ELSE response
    IN  [your_ip_address |-> r1.your_ip_address,
         server_ip_address |-> r1.server_ip_address,
         subnet_mask |-> r1.subnet_mask,
         routers |-> r1.routers,
         domain_name_servers |-> r1.domain_name_servers,
         static_routes |-> r1.static_routes,
         classless_static_routes |-> r1.classless_static_routes]

\* ------------------------------------------------------------------ timers
\* Backoff::randomize, with the random offset as a parameter.
Offsets == (0 - AMPLITUDE)..AMPLITUDE
randomize(duration, offset) ==
    IF offset > 0 THEN duration + offset
    ELSE IF offset < 0 THEN duration - (0 - offset)
    ELSE duration

\* Backoff::new
Backoff_new(minimal, maximal, offset) ==
    [current |-> minimal, with_rand |-> randomize(minimal, offset),
     maximal |-> maximal]

\* Backoff::poll_next once the Sleep has completed: the timer as it is left and
\* the item (seconds, expired) it yields.
Backoff_poll_next(b, offset) ==
    LET current == b.current * 2
    IN  [timer |-> [b EXCEPT !.current = current,
                             !.with_rand = randomize(current, offset)],
         seconds |-> b.with_rand,
         expired |-> current > b.maximal]

\* ForthonState::new
ForthonState_new(deadline, minimal) ==
    LET expired == deadline < minimal * 2
        sleep == IF expired THEN deadline ELSE deadline \div 2
    IN  [left |-> deadline - sleep, sleep |-> sleep, minimal |-> minimal,
         expired |-> expired]

\* ForthonState::next that ends the halving only when less than `minimal` is
\* left.
ForthonState_next_late(fs) ==
    LET expired == fs.left < fs.minimal
        sleep == IF expired THEN fs.left ELSE fs.left \div 2
    IN  [fs EXCEPT !.sleep = sleep,
                   !.expired = IF expired THEN TRUE ELSE fs.expired,
                   !.left = fs.left - sleep]

\* ForthonState::next without `self.left -= self.sleep`.
ForthonState_next_keeps_left(fs) ==
    LET expired == fs.left < fs.minimal * 2
        sleep == IF expired THEN fs.left ELSE fs.left \div 2
    IN  [fs EXCEPT !.sleep = sleep,
                   !.expired = IF expired THEN TRUE ELSE fs.expired]

\* ForthonState::next: the state after the call (the sleep it returns is the
\* `sleep` field).
ForthonState_next(fs) ==
    LET expired == fs.left < fs.minimal * 2
        sleep == IF expired THEN fs.left ELSE fs.left \div 2
    IN  [fs EXCEPT !.sleep = sleep,
                   !.expired = IF expired THEN TRUE ELSE fs.expired,
                   !.left = fs.left - sleep]

\* Forthon::poll_next once the Sleep has completed.
Forthon_poll_next(f) ==
    IF f.expired
    THEN [timer |-> f, seconds |-> f.sleep, expired |-> TRUE]
    ELSE [timer |-> ForthonState_next(f), seconds |-> f.sleep,
          expired |-> FALSE]

\* ------------------------------------------------------------ client state
\* State::new(dhcp_state, server_address, false), with the random xid drawn.
State_new(dhcp_state, server_address, x) ==
    [dhcp_state |-> dhcp_state, xid |-> x, is_broadcast |-> FALSE,
     offered_address |-> 0, offered_time |-> 0,
     dhcp_server_id |-> server_address,
     assigned_address |-> 0, lease_time |-> 0,
     timer_offer |-> None, timer_ack |-> None, timer_renewal |-> None,
     timer_rebinding |-> None, timer_expiration |-> None]

\* T1 and T2 of a lease (glossary: lease/2 and lease*7/8).
RenewalTime(lease) == lease \div 2
RebindingTime(lease) == (lease * 7) \div 8

\* State::transcend(from, to, response), `from` being the current state: the
\* state after it.  `x` is the random xid drawn on entering INIT and `offset`
\* the random offset of a backoff timer started by the transition.
\* Section 4.4.1: entry into INIT regenerates the transaction id.  Section 3:
\* the state holds the offered address and lease time, the server id, T1, T2,
\* the expiration and the active timer.
transcend(s, to, response, x, offset) ==
    LET from == s.dhcp_state
        backoff == Some(Backoff_new(BACKOFF_TIMEOUT_INITIAL,
                                    BACKOFF_TIMEOUT_MAXIMAL, offset))
        t == [s EXCEPT !.dhcp_state = to]
    IN  CASE to = "Init" ->
               [t EXCEPT !.xid = x, !.timer_offer = None, !.timer_ack = None,
                         !.timer_renewal = None, !.timer_rebinding = None,
                         !.timer_expiration = None]
          [] to = "Selecting" /\ from = "Init" ->
               [t EXCEPT !.timer_offer = backoff]
          [] to = "Requesting" /\ response.some ->
               [t EXCEPT !.offered_address = response.v.your_ip_address,
                         !.offered_time = response.v.address_time,
                         !.dhcp_server_id = response.v.dhcp_server_id,
                         !.timer_offer = None, !.timer_ack = backoff]
          [] to = "Rebooting" /\ from = "InitReboot" ->
               [t EXCEPT !.timer_ack = backoff]
          [] to = "Bound" /\ response.some ->
               [t EXCEPT !.assigned_address = response.v.your_ip_address,
                         !.lease_time = response.v.address_time,
                         !.dhcp_server_id = response.v.dhcp_server_id,
                         !.timer_ack = None, !.timer_rebinding = None,
                         !.timer_expiration = None,
                         !.timer_renewal =
                             Some(RenewalTime(response.v.address_time))]
          [] to = "Renewing" /\ from = "Bound" ->
               [t EXCEPT !.timer_renewal = None,
                         !.timer_rebinding =
                             Some(ForthonState_new(
                                 RebindingTime(s.lease_time)
                                     - RenewalTime(s.lease_time),
                                 FORTHON_TIMEOUT_MINIMAL))]
          [] to = "Rebinding" /\ from = "RenewingSent" ->
               [t EXCEPT !.timer_rebinding = None,
                         !.timer_expiration =
                             Some(ForthonState_new(
                                 s.lease_time - RebindingTime(s.lease_time),
                                 FORTHON_TIMEOUT_MINIMAL))]
          [] OTHER -> t

\* ---------------------------------------------------------------- requests
\* MessageBuilder (section 4.4.3): the fields of a request the properties below speak of.
Request(ty, x, ciaddr, requested, sid) ==
    [dhcp_message_type |-> ty, transaction_id |-> x,
     client_ip_address |-> ciaddr, address_request |-> requested,
     dhcp_server_id |-> sid]

discover(x, is_broadcast, address_request, address_time) ==
    Request("DhcpDiscover", x, 0, address_request, None)

request_selecting(x, is_broadcast, offered_address, offered_time, sid) ==
    Request("DhcpRequest", x, 0, Some(offered_address), Some(sid))

request_init_reboot(x, is_broadcast, address_request, address_time) ==
    Request("DhcpRequest", x, 0, Some(address_request), None)

\* request_renew that leaves ciaddr unspecified.
request_renew_without_ciaddr(x, is_broadcast, assigned_address, address_time) ==
    Request("DhcpRequest", x, 0, None, None)

request_renew(x, is_broadcast, assigned_address, address_time) ==
    Request("DhcpRequest", x, assigned_address, None, None)

release(x, assigned_address, sid, message) ==
    Request("DhcpRelease", x, assigned_address, None, Some(sid))

decline(x, address, sid, message) ==
    Request("DhcpDecline", x, 0, Some(address), Some(sid))

inform(x, is_broadcast, address) ==
    Request("DhcpInform", x, address, None, None)

\* ------------------------------------------------------------- framed sink
\* DhcpFramed::start_send: encode into buf_write and fill the pending slot;
\* `encoded` is whether Message::to_bytes succeeded.
start_send(sock, addr, message, encoded) ==
    IF encoded
    THEN [io |-> [sock EXCEPT !.pending =
                      Some([addr |-> addr, message |-> message])],
          ok |-> TRUE]
    ELSE [io |-> sock, ok |-> FALSE]

\* DhcpFramed::try_send_to when poll_send_to is ready: `result` is "sent" (all
\* bytes written), "short" (fewer written) or "error" (the OS refused).
\* The result carries the kind of the io::Error: ErrorKind::Other for the
\* short write, the socket's own error otherwise.
SendResults == {"sent", "short", "error"}
Ready(sock) == [io |-> sock, ok |-> TRUE, error |-> "", ready |-> TRUE]
ReadyErr(sock, error) ==
    [io |-> sock, ok |-> FALSE, error |-> error, ready |-> TRUE]
\* Poll::Pending: poll_send_to would block ("blocked") and ready! returns.
Pending(sock) == [io |-> sock, ok |-> FALSE, error |-> "", ready |-> FALSE]
\* What poll_send_to may answer.
PollResults == SendResults \cup {"blocked"}

\* try_send_to that leaves the datagram pending after it was written.
try_send_to_keeps_pending(sock, result) ==
    CASE result = "sent" -> Ready(sock)
      [] result = "short" -> ReadyErr(sock, "Other")
      [] OTHER -> ReadyErr(sock, "Socket")

\* try_send_to that gives the datagram up when the OS refuses it.
try_send_to_drops_refused(sock, result) ==
    CASE result = "sent" -> Ready([sock EXCEPT !.pending = None])
      [] result = "short" -> ReadyErr([sock EXCEPT !.pending = None], "Other")
      [] result = "blocked" -> Pending(sock)
      [] OTHER -> ReadyErr([sock EXCEPT !.pending = None], "Socket")

try_send_to(sock, result) ==
    CASE result = "sent" -> Ready([sock EXCEPT !.pending = None])
      [] result = "short" -> ReadyErr([sock EXCEPT !.pending = None], "Other")
      [] result = "blocked" -> Pending(sock)
      [] OTHER -> ReadyErr(sock, "Socket")

\* DhcpFramed::poll_ready
poll_ready(sock, result) ==
    IF sock.pending.some THEN try_send_to(sock, result) ELSE Ready(sock)

\* DhcpFramed::poll_flush
poll_flush(sock, result) ==
    IF sock.pending.some THEN try_send_to(sock, result) ELSE Ready(sock)

\* switch_to that reports success and leaves the socket as it is.
switch_to_noop(sock, mode, made) ==
    [io |-> sock, ok |-> TRUE, created |-> FALSE]

\* switch_to that makes a socket on every call.
switch_to_always_makes(sock, mode, made) ==
    IF made
    THEN [io |-> [sock EXCEPT !.mode = mode], ok |-> TRUE, created |-> TRUE]
    ELSE [io |-> sock, ok |-> FALSE, created |-> FALSE]

\* SwitchableUdpSocket::switch_to: a socket is made only when the mode
\* changes; `made` is whether MakeSocket::make succeeded, `created` whether
\* a socket was made and put in the place of the previous one.
switch_to(sock, mode, made) ==
    IF mode # sock.mode
    THEN IF made
         THEN [io |-> [sock EXCEPT !.mode = mode], ok |-> TRUE,
               created |-> TRUE]
         ELSE [io |-> sock, ok |-> FALSE, created |-> FALSE]
    ELSE [io |-> sock, ok |-> TRUE, created |-> FALSE]

\* ------------------------------------------------------------------ macros
\* validate! that lets a message through when Message::validate fails.
validate_lenient(response) ==
    [ok |-> TRUE, dhcp_message_type |-> response.dhcp_message_type]

\* validate!: the message type, or `continue`.
validate(response) == Message_validate(response)

\* check_xid! that passes every response.
check_xid_any(yours, response) == TRUE

\* check_xid!: TRUE when the response passes, FALSE for `continue`.
check_xid(yours, response) == response = yours

\* check_message_type!: TRUE when the type matches, FALSE for `continue`.
check_message_type(message, needed) == message = needed

\* poll_backoff!(backoff, cx) once the timer is ready: "err" for
\* return Poll::Ready(Some(Err(TimedOut))), "go" to fall through.
poll_backoff2(expired) == IF expired THEN "err" ELSE "go"

\* poll_backoff! that retransmits on the expired tick too.
poll_backoff_never_restarts(expired, revert, restart) == revert

\* poll_backoff! that restarts on every tick.
poll_backoff_always_restarts(expired, revert, restart) == restart

\* poll_backoff!(backoff, cx, revert, restart) once the timer is ready.
poll_backoff(expired, revert, restart) == IF expired THEN restart ELSE revert

\* poll_forthon! with its two outcomes swapped.
poll_forthon_swapped(expired, revert, restart) ==
    IF expired THEN revert ELSE restart

\* poll_forthon!(forthon, cx, revert, restart) once the timer is ready.
poll_forthon(expired, revert, restart) == IF expired THEN restart ELSE revert

\* ---------------------------------------------------------------- variables
VARIABLES
    state,      \* Client::state (State)
    io,         \* Client::io: the socket mode and DhcpFramed::pending
    options,    \* Client::options (RequestOptions)
    ev,         \* what the last loop iteration met (input, timer, socket)
    out,        \* what the last loop iteration returned to the consumer
    timer,      \* a Backoff or Forthon stream polled on its own (TimerSpec)
    server,     \* GenericServer: its socket (a DhcpFramed) (ServerSpec)
    udp,        \* the UdpSocket under the server's DhcpFramed (ServerSpec)
    calls,      \* what the server's DhcpFramed was given and gave (ServerSpec)
    database    \* the leases and the frozen addresses (DatabaseSpec)

vars ==
    <<state, io, options, ev, out, timer, server, udp, calls, database>>
\* The variables of the timer and server specifications, which the client
\* leaves alone.
timer_vars == <<timer>>
server_vars == <<server, udp, calls, database>>
NoTimer == [kind |-> "None"]
NoServer == [kind |-> "None"]

NoItem == [kind |-> "None"]
Configuration(response) ==
    [kind |-> "Configuration", configuration |-> from_response(response)]
Err(error) == [kind |-> "Err", error |-> error]

\* Client::new: INIT-REBOOT when a previous client address is given, INIT
\* otherwise; the socket of the examples starts in raw mode.
Init ==
    /\ \E client_address \in {None, Some(100)}, server_address \in {None},
          x \in Xids :
         /\ state = State_new(IF client_address.some THEN "InitReboot"
                              ELSE "Init", server_address, x)
         /\ options = [address_request |-> client_address, address_time |-> 60]
    /\ io = [mode |-> "Raw", pending |-> None]
    /\ ev = [kind |-> "new"]
    /\ out = NoItem
    /\ timer = NoTimer
    /\ server = NoServer
    /\ udp = NoServer
    /\ calls = NoServer
    /\ database = NoServer

\* Client::destination
destination ==
    IF io.mode = "Raw" THEN BROADCAST
    ELSE IF state.dhcp_server_id.some THEN state.dhcp_server_id.v
    ELSE BROADCAST

\* Client::send_request(request) and the transition that follows it: the
\* datagram goes to destination():67; an encoding error is returned to the
\* consumer and the state stays.
SendRequest(request, to) ==
    \E encoded \in BOOLEAN :
        LET r == start_send(io, <<destination, DHCP_PORT_SERVER>>, request,
                            encoded)
        IN  /\ io' = r.io
            /\ ev' = [kind |-> "send", ok |-> r.ok]
            /\ IF r.ok
               THEN /\ state' = transcend(state, to, None, state.xid, 0)
                    /\ out' = NoItem
               ELSE /\ state' = state
                    /\ out' = Err("Encode")
            /\ UNCHANGED <<options, timer_vars, server_vars>>

\* poll_complete! with a datagram pending and the socket ready to write.
PollComplete ==
    /\ io.pending.some
    /\ \E result \in SendResults :
        LET r == poll_ready(io, result)
        IN  /\ io' = r.io
            /\ ev' = [kind |-> "complete", result |-> result]
            /\ out' = IF r.ok THEN NoItem ELSE Err(r.error)
    /\ UNCHANGED <<state, options, timer_vars, server_vars>>

\* The branch of `current` in a loop without poll_complete! at its head.
At_without_poll_complete(current) == state.dhcp_state = current

\* The branch of `current`, reached when poll_complete! passed.
At(current) == ~io.pending.some /\ state.dhcp_state = current

WaitingStates ==
    {"SelectingSent", "RequestingSent", "RebootingSent", "RenewingSent",
     "RebindingSent"}

\* ------------------------------------------------ INIT, SELECTING, REQUESTING
\* DhcpState::Init
DhcpInit ==
    /\ At("Init")
    /\ \E made \in BOOLEAN, offset \in Offsets :
        LET r == switch_to(io, "Raw", made)
        IN  /\ io' = r.io
            /\ ev' = [kind |-> "switch", ok |-> r.ok,
                      created |-> r.created]
            /\ IF r.ok
               THEN /\ state' = transcend(state, "Selecting", None, state.xid,
                                          offset)
                    /\ out' = NoItem
               ELSE /\ state' = state
                    /\ out' = Err("Socket")
    /\ UNCHANGED <<options, timer_vars, server_vars>>

\* DhcpState::Selecting sending its DhcpDiscover under another xid than the
\* state's.
DhcpSelecting_other_xid ==
    /\ At("Selecting")
    /\ SendRequest(discover((state.xid + 1) % (MaxXid + 1), state.is_broadcast,
                            options.address_request, options.address_time),
                   "SelectingSent")

\* DhcpState::Selecting
DhcpSelecting ==
    /\ At("Selecting")
    /\ SendRequest(discover(state.xid, state.is_broadcast,
                            options.address_request, options.address_time),
                   "SelectingSent")

\* DhcpState::SelectingSent, io.poll_next gave a message.
DhcpSelectingSent_Recv ==
    /\ At("SelectingSent")
    /\ \E response \in Responses :
        LET dhcp_message_type == validate(response)
            accepted ==
                /\ dhcp_message_type.ok
                /\ check_xid(state.xid, response.transaction_id)
                /\ check_message_type(dhcp_message_type.dhcp_message_type,
                                      "DhcpOffer")
        IN  /\ ev' = [kind |-> "recv", response |-> response]
            /\ IF accepted
               THEN \E offset \in Offsets :
                        state' = transcend(state, "Requesting", Some(response),
                                           state.xid, offset)
               ELSE state' = state
    /\ out' = NoItem
    /\ UNCHANGED <<io, options, timer_vars, server_vars>>

\* DhcpState::SelectingSent, io.poll_next is pending and timer_offer is ready.
DhcpSelectingSent_Timer ==
    /\ At("SelectingSent")
    /\ state.timer_offer.some
    /\ state.timer_offer.v.current * 2 <= MaxBackoffCurrent
    /\ \E offset \in Offsets :
        LET p == Backoff_poll_next(state.timer_offer.v, offset)
            s1 == [state EXCEPT !.timer_offer = Some(p.timer)]
        IN  /\ ev' = [kind |-> "tick", expired |-> p.expired]
            /\ IF poll_backoff2(p.expired) = "err"
               THEN /\ state' = s1
                    /\ out' = Err("TimedOut")
               ELSE /\ state' = transcend(s1, "Selecting", None, s1.xid, 0)
                    /\ out' = NoItem
    /\ UNCHANGED <<io, options, timer_vars, server_vars>>

\* DhcpState::Requesting
DhcpRequesting ==
    /\ At("Requesting")
    /\ state.dhcp_server_id.some
    /\ SendRequest(request_selecting(state.xid, state.is_broadcast,
                                     state.offered_address,
                                     Some(state.offered_time),
                                     state.dhcp_server_id.v),
                   "RequestingSent")

\* The match with DhcpNak skipped like any unexpected type.
match_dhcp_message_type_nak_skipped(ty) ==
    IF ty = "DhcpAck" THEN "Bound" ELSE "continue"

\* The `match dhcp_message_type` of RequestingSent and of RebootingSent:
\* DhcpNak resets to INIT, DhcpAck falls through to BOUND, any other type is
\* skipped with `continue`.
match_dhcp_message_type(ty) ==
    CASE ty = "DhcpNak" -> "Init"
      [] ty = "DhcpAck" -> "Bound"
      [] OTHER -> "continue"

\* The receive half of RequestingSent and of RebootingSent: validate!,
\* check_xid!, then the match on the message type.
AwaitAck_Recv(current) ==
    /\ At(current)
    /\ \E response \in Responses :
        LET dhcp_message_type == validate(response)
            passed == /\ dhcp_message_type.ok
                      /\ check_xid(state.xid, response.transaction_id)
            to == IF passed
                  THEN match_dhcp_message_type(
                           dhcp_message_type.dhcp_message_type)
                  ELSE "continue"
        IN  /\ ev' = [kind |-> "recv", response |-> response]
            /\ CASE to = "Init" ->
                      /\ \E x \in Xids :
                            state' = transcend(state, "Init", None, x, 0)
                      /\ out' = NoItem
                 [] to = "Bound" ->
                      /\ state' = transcend(state, "Bound", Some(response),
                                            state.xid, 0)
                      /\ out' = Configuration(response)
                 [] OTHER ->
                      /\ state' = state
                      /\ out' = NoItem
    /\ UNCHANGED <<io, options, timer_vars, server_vars>>

\* The timer half of RequestingSent and of RebootingSent: io.poll_next is
\* pending and timer_ack is ready.
AwaitAck_Timer(current, revert, restart) ==
    /\ At(current)
    /\ state.timer_ack.some
    /\ state.timer_ack.v.current * 2 <= MaxBackoffCurrent
    /\ \E offset \in Offsets :
        LET p == Backoff_poll_next(state.timer_ack.v, offset)
            s1 == [state EXCEPT !.timer_ack = Some(p.timer)]
            next == poll_backoff(p.expired, revert, restart)
        IN  /\ ev' = [kind |-> "tick", expired |-> p.expired]
            /\ \E x \in (IF next = "Init" THEN Xids ELSE {s1.xid}) :
                   state' = transcend(s1, next, None, x, 0)
    /\ out' = NoItem
    /\ UNCHANGED <<io, options, timer_vars, server_vars>>

\* DhcpState::RequestingSent
DhcpRequestingSent_Recv == AwaitAck_Recv("RequestingSent")
DhcpRequestingSent_Timer ==
    AwaitAck_Timer("RequestingSent", "Requesting", "Init")

\* ------------------------------------------------------ INIT-REBOOT, REBOOTING
\* DhcpState::InitReboot
DhcpInitReboot ==
    /\ At("InitReboot")
    /\ \E made \in BOOLEAN, offset \in Offsets :
        LET r == switch_to(io, "Raw", made)
        IN  /\ io' = r.io
            /\ ev' = [kind |-> "switch", ok |-> r.ok,
                      created |-> r.created]
            /\ IF r.ok
               THEN /\ state' = transcend(state, "Rebooting", None, state.xid,
                                          offset)
                    /\ out' = NoItem
               ELSE /\ state' = state
                    /\ out' = Err("Socket")
    /\ UNCHANGED <<options, timer_vars, server_vars>>

\* DhcpState::Rebooting
DhcpRebooting ==
    /\ At("Rebooting")
    /\ options.address_request.some
    /\ SendRequest(request_init_reboot(state.xid, state.is_broadcast,
                                       options.address_request.v,
                                       options.address_time),
                   "RebootingSent")

\* DhcpState::RebootingSent
DhcpRebootingSent_Recv == AwaitAck_Recv("RebootingSent")
DhcpRebootingSent_Timer ==
    AwaitAck_Timer("RebootingSent", "Rebooting", "Init")

\* ------------------------------------------------- BOUND, RENEWING, REBINDING
\* DhcpState::Bound, timer_renewal is ready (poll_delay!).
DhcpBound ==
    /\ At("Bound")
    /\ state.timer_renewal.some
    /\ \E made \in BOOLEAN :
        LET r == switch_to(io, "Udp", made)
        IN  /\ io' = r.io
            /\ ev' = [kind |-> "switch", ok |-> r.ok,
                      created |-> r.created]
            /\ IF r.ok
               THEN /\ state' = transcend(state, "Renewing", None, state.xid, 0)
                    /\ out' = NoItem
               ELSE /\ state' = state
                    /\ out' = Err("Socket")
    /\ UNCHANGED <<options, timer_vars, server_vars>>

\* DhcpState::Renewing
DhcpRenewing ==
    /\ At("Renewing")
    /\ SendRequest(request_renew(state.xid, state.is_broadcast,
                                 state.assigned_address, options.address_time),
                   "RenewingSent")

\* The receive half of RenewingSent and of RebindingSent: validate!,
\* check_xid!, check_message_type!(DhcpAck), then BOUND with a Configuration.
AwaitRenew_Recv(current) ==
    /\ At(current)
    /\ \E response \in Responses :
        LET dhcp_message_type == validate(response)
            accepted ==
                /\ dhcp_message_type.ok
                /\ check_xid(state.xid, response.transaction_id)
                /\ check_message_type(dhcp_message_type.dhcp_message_type,
                                      "DhcpAck")
        IN  /\ ev' = [kind |-> "recv", response |-> response]
            /\ IF accepted
               THEN /\ state' = transcend(state, "Bound", Some(response),
                                          state.xid, 0)
                    /\ out' = Configuration(response)
               ELSE /\ state' = state
                    /\ out' = NoItem
    /\ UNCHANGED <<io, options, timer_vars, server_vars>>

\* DhcpState::RenewingSent
DhcpRenewingSent_Recv == AwaitRenew_Recv("RenewingSent")

\* DhcpState::RenewingSent, io.poll_next is pending and timer_rebinding is
\* ready.
DhcpRenewingSent_Timer ==
    /\ At("RenewingSent")
    /\ state.timer_rebinding.some
    /\ LET p == Forthon_poll_next(state.timer_rebinding.v)
           s1 == [state EXCEPT !.timer_rebinding = Some(p.timer)]
           next == poll_forthon(p.expired, "Renewing", "Rebinding")
       IN  /\ ev' = [kind |-> "tick", expired |-> p.expired]
           /\ state' = transcend(s1, next, None, s1.xid, 0)
    /\ out' = NoItem
    /\ UNCHANGED <<io, options, timer_vars, server_vars>>

\* DhcpState::Rebinding: the request is built, the socket switched to raw
\* mode, the request sent.
DhcpRebinding ==
    /\ At("Rebinding")
    /\ \E made \in BOOLEAN, encoded \in BOOLEAN :
        LET request == request_renew(state.xid, state.is_broadcast,
                                     state.assigned_address,
                                     options.address_time)
            sw == switch_to(io, "Raw", made)
            dst == IF sw.io.mode = "Raw" THEN BROADCAST
                   ELSE IF state.dhcp_server_id.some
                   THEN state.dhcp_server_id.v ELSE BROADCAST
            r == start_send(sw.io, <<dst, DHCP_PORT_SERVER>>, request, encoded)
        IN  IF ~sw.ok
            THEN /\ io' = sw.io
                 /\ ev' = [kind |-> "switch", ok |-> FALSE,
                           created |-> sw.created]
                 /\ state' = state
                 /\ out' = Err("Socket")
            ELSE /\ io' = r.io
                 /\ ev' = [kind |-> "send", ok |-> r.ok]
                 /\ IF r.ok
                    THEN /\ state' = transcend(state, "RebindingSent", None,
                                               state.xid, 0)
                         /\ out' = NoItem
                    ELSE /\ state' = state
                         /\ out' = Err("Encode")
    /\ UNCHANGED <<options, timer_vars, server_vars>>

\* DhcpState::RebindingSent
DhcpRebindingSent_Recv == AwaitRenew_Recv("RebindingSent")

\* DhcpState::RebindingSent, io.poll_next is pending and timer_expiration is
\* ready.
DhcpRebindingSent_Timer ==
    /\ At("RebindingSent")
    /\ state.timer_expiration.some
    /\ LET p == Forthon_poll_next(state.timer_expiration.v)
           s1 == [state EXCEPT !.timer_expiration = Some(p.timer)]
           next == poll_forthon(p.expired, "Rebinding", "Init")
       IN  /\ ev' = [kind |-> "tick", expired |-> p.expired]
           /\ \E x \in (IF next = "Init" THEN Xids ELSE {s1.xid}) :
                  state' = transcend(s1, next, None, x, 0)
    /\ out' = NoItem
    /\ UNCHANGED <<io, options, timer_vars, server_vars>>

\* The socket error of a waiting state returned to the consumer, the client
\* going back to INIT.
SocketError_yielded ==
    /\ ~io.pending.some
    /\ state.dhcp_state \in WaitingStates
    /\ ev' = [kind |-> "ioerr"]
    /\ out' = Err("Socket")
    /\ state' = transcend(state, "Init", None, state.xid, 0)
    /\ UNCHANGED <<io, options, timer_vars, server_vars>>

\* In a waiting state, io.poll_next gave Poll::Ready(Some(Err(error))): the
\* error is logged and the loop continues.
SocketError ==
    /\ ~io.pending.some
    /\ state.dhcp_state \in WaitingStates
    /\ ev' = [kind |-> "ioerr"]
    /\ out' = NoItem
    /\ UNCHANGED <<state, io, options, timer_vars, server_vars>>

\* ------------------------------------------------------------ Sink<Command>
\* The commands of the user: Release, Decline{address}, Inform{address}.
Commands ==
    {[command |-> "Release", address |-> 0],
     [command |-> "Decline", address |-> 100],
     [command |-> "Inform", address |-> 101]}

\* The destination match of Sink<Command>::start_send that broadcasts a
\* Release or Decline when no server is known.
Command_destination_without_server(command, dhcp_server_id) ==
    IF command.command = "Release" /\ dhcp_server_id.some
    THEN Some(<<dhcp_server_id.v, DHCP_PORT_SERVER>>)
    ELSE Some(<<BROADCAST, DHCP_PORT_SERVER>>)

\* The destination each arm of Sink<Command>::start_send computes, None when
\* the arm returns ErrorKind::AddrNotAvailable.
Command_destination(command, dhcp_server_id) ==
    CASE command.command = "Release" ->
           IF dhcp_server_id.some
           THEN Some(<<dhcp_server_id.v, DHCP_PORT_SERVER>>) ELSE None
      [] command.command = "Decline" ->
           IF dhcp_server_id.some
           THEN Some(<<BROADCAST, DHCP_PORT_SERVER>>) ELSE None
      [] OTHER ->
           Some(<<IF dhcp_server_id.some THEN dhcp_server_id.v ELSE BROADCAST,
                  DHCP_PORT_SERVER>>)

\* The request each arm of Sink<Command>::start_send builds.
Command_request(command, dhcp_server_id) ==
    CASE command.command = "Release" ->
           release(state.xid, state.assigned_address, dhcp_server_id, "")
      [] command.command = "Decline" ->
           decline(state.xid, command.address, dhcp_server_id, "")
      [] OTHER -> inform(state.xid, state.is_broadcast, command.address)

\* Sink<Command>::start_send.  The user follows the Sink contract: start_send
\* is called after poll_ready returned Ready(Ok), that is with nothing
\* pending.
Command_start_send ==
    /\ ~io.pending.some
    /\ \E command \in Commands :
        LET destination_ == Command_destination(command, state.dhcp_server_id)
        IN  IF ~destination_.some
            THEN /\ io' = io
                 /\ ev' = [kind |-> "command", command |-> command.command,
                           result |-> "AddrNotAvailable"]
            ELSE \E encoded \in BOOLEAN :
                    LET sid == IF state.dhcp_server_id.some
                               THEN state.dhcp_server_id.v ELSE BROADCAST
                        r == start_send(io, destination_.v,
                                        Command_request(command, sid), encoded)
                    IN  /\ io' = r.io
                        /\ ev' = [kind |-> "command",
                                  command |-> command.command,
                                  result |-> IF r.ok THEN "Ok" ELSE "Encode"]
    /\ out' = NoItem
    /\ UNCHANGED <<state, options, timer_vars, server_vars>>

\* Sink<Command>::poll_ready (poll_flush and poll_close are the same proxy):
\* the pending datagram is driven by the user of the sink, who gets the
\* result.
Command_poll_ready ==
    /\ io.pending.some
    /\ \E result \in SendResults :
        LET r == poll_ready(io, result)
        IN  /\ io' = r.io
            /\ ev' = [kind |-> "ready", result |-> result,
                      error |-> r.error]
    /\ out' = NoItem
    /\ UNCHANGED <<state, options, timer_vars, server_vars>>

Next ==
    \/ PollComplete
    \/ DhcpInit
    \/ DhcpSelecting
    \/ DhcpSelectingSent_Recv
    \/ DhcpSelectingSent_Timer
    \/ DhcpRequesting
    \/ DhcpRequestingSent_Recv
    \/ DhcpRequestingSent_Timer
    \/ DhcpInitReboot
    \/ DhcpRebooting
    \/ DhcpRebootingSent_Recv
    \/ DhcpRebootingSent_Timer
    \/ DhcpBound
    \/ DhcpRenewing
    \/ DhcpRenewingSent_Recv
    \/ DhcpRenewingSent_Timer
    \/ DhcpRebinding
    \/ DhcpRebindingSent_Recv
    \/ DhcpRebindingSent_Timer
    \/ SocketError
    \/ Command_start_send
    \/ Command_poll_ready

Spec == Init /\ [][Next]_vars

\* ------------------------------------------------- the timers on their own
\* The variables of the client and of the server, idle.
ClientIdle ==
    /\ state = State_new("Init", None, 0)
    /\ options = [address_request |-> None, address_time |-> 60]
    /\ io = [mode |-> "Raw", pending |-> None]
ServerIdle ==
    /\ server = NoServer
    /\ udp = NoServer
    /\ calls = NoServer
    /\ database = NoServer

\* The deadlines and minimal sleeps Forthon::new is given: those of the
\* client (minimal 60 s) and a short minimal that lets the deadline be halved
\* many times.
Deadlines == 0..MaxDeadline
Minimals == {FORTHON_TIMEOUT_MINIMAL, 7}

\* Backoff::new(4 s, 64 s) as State::transcend makes it, or Forthon::new(
\* deadline, minimal).  `slept` is the sum of the sleeps completed so far and
\* `ended` is set once the stream has yielded expired = true.
TimerInit ==
    /\ \/ \E offset \in Offsets :
            timer = [kind |-> "Backoff",
                     backoff |-> Backoff_new(BACKOFF_TIMEOUT_INITIAL,
                                             BACKOFF_TIMEOUT_MAXIMAL, offset),
                     ended |-> FALSE]
       \/ \E deadline \in Deadlines, minimal \in Minimals :
            timer = [kind |-> "Forthon",
                     forthon |-> ForthonState_new(deadline, minimal),
                     deadline |-> deadline, slept |-> 0, ended |-> FALSE]
    /\ ev = [kind |-> "new"]
    /\ out = NoItem
    /\ ClientIdle
    /\ ServerIdle

\* Backoff::poll_next, the Sleep having completed.
Backoff_Tick ==
    /\ timer.kind = "Backoff"
    /\ timer.backoff.current * 2 <= MaxBackoffCurrent
    /\ \E offset \in Offsets :
        LET p == Backoff_poll_next(timer.backoff, offset)
        IN  /\ timer' = [timer EXCEPT !.backoff = p.timer,
                                      !.ended = p.expired]
            /\ ev' = [kind |-> "yield", seconds |-> p.seconds,
                      expired |-> p.expired]
    /\ UNCHANGED <<state, io, options, out, server_vars>>

\* Forthon::poll_next, the Sleep having completed.  The stream is dropped by
\* its user once it has yielded expired = true.
Forthon_Tick ==
    /\ timer.kind = "Forthon"
    /\ ~timer.ended
    /\ LET p == Forthon_poll_next(timer.forthon)
       IN  /\ timer' = [timer EXCEPT !.forthon = p.timer,
                                     !.slept = @ + p.seconds,
                                     !.ended = p.expired]
           /\ ev' = [kind |-> "yield", seconds |-> p.seconds,
                     expired |-> p.expired]
    /\ UNCHANGED <<state, io, options, out, server_vars>>

TimerNext ==
    \/ Backoff_Tick
    \/ Forthon_Tick

TimerSpec == TimerInit /\ [][TimerNext]_vars
\* The timers under the executor: the Sleep of a Forthon completes and the
\* stream is polled again.
FairTimerSpec == TimerInit /\ [][TimerNext]_vars /\ WF_vars(Forthon_Tick)

\* ------------------------------------------- Configuration::from_response
\* A DhcpAck with any combination of options is at hand, and
\* Configuration::from_response is applied to it.
ConfigurationInit ==
    /\ \E response \in AllAcks : ev = [kind |-> "recv", response |-> response]
    /\ out = NoItem
    /\ timer = NoTimer
    /\ ClientIdle
    /\ ServerIdle

Configuration_from_response ==
    /\ ev.kind = "recv"
    /\ out = NoItem
    /\ out' = Configuration(ev.response)
    /\ UNCHANGED <<state, io, options, ev, timer_vars, server_vars>>

ConfigurationNext == Configuration_from_response

ConfigurationSpec == ConfigurationInit /\ [][ConfigurationNext]_vars

\* ------------------------------------------------------------------ server
\* GenericServer::poll over its DhcpFramed<UdpSocket>.  server/src/database.rs
\* is not among the source files: what a database call answers is drawn from
\* DbResults, and the leases are not kept.
server_ip_address == CHOOSE a \in ServerAddrs : TRUE
OtherServers == {3}

\* dhcp_protocol::HardwareType: Ethernet, and any other hardware type
\* a BOOTP header may name (Other).
HardwareTypes == {"Ethernet", "Other"}
\* HardwareType as u8
HardwareType_as_u8(hardware_type) ==
    IF hardware_type = "Ethernet" THEN 1 ELSE 6
\* Hardware addresses, and MacAddress::as_bytes.
MacAddresses == {11, 12}
as_bytes(client_hardware_address) == <<client_hardware_address>>

\* Client::new: the client identifier sent when the caller gave none is the
\* byte of HardwareType::Ethernet followed by the hardware address.
Client_default_client_id(client_hardware_address) ==
    <<HardwareType_as_u8("Ethernet")>> \o as_bytes(client_hardware_address)

\* A message of a client as the server reads it: `request` as this
\* repository's client builds it, sent from the first hardware address with
\* the default client identifier.
ClientMessage(request, wf, b) ==
    [wellformed |-> wf, is_broadcast |-> b,
     dhcp_message_type |-> request.dhcp_message_type,
     transaction_id |-> request.transaction_id,
     client_ip_address |-> request.client_ip_address,
     address_request |-> request.address_request,
     address_time |-> Some(60),
     dhcp_server_id |-> request.dhcp_server_id,
     hardware_type |-> "Ethernet",
     hardware_address_length |-> 6,
     gateway_ip_address |-> 0,
     client_hardware_address |-> 11,
     client_id |-> Some(Client_default_client_id(11))]

\* The requests of this repository's client, one of each kind, and one that
\* names another server.
ServerRequests ==
    {ClientMessage(discover(0, b, None, 60), TRUE, b) : b \in BOOLEAN}
    \cup {ClientMessage(request_selecting(0, FALSE, 100, Some(60), sid),
                        TRUE, FALSE) : sid \in ServerAddrs \cup OtherServers}
    \cup {ClientMessage(r, TRUE, FALSE) :
            r \in {request_init_reboot(0, FALSE, 100, 60),
                   request_renew(0, FALSE, 100, 60),
                   release(0, 100, server_ip_address, ""),
                   inform(0, FALSE, 101)}}

\* What poll_recv_from reads: a datagram Message::from_bytes parses into
\* `message`, or one it rejects.
Datagrams ==
    {[parses |-> TRUE, message |-> r] : r \in ServerRequests}
    \cup {[parses |-> FALSE,
           message |-> ClientMessage(Request("NoType", 0, 0, None, None),
                                     FALSE, FALSE)]}

\* Requests of any client: every message type the server matches on and one
\* it does not, with and without a server identifier, ciaddr, broadcast
\* flag, relay agent and client identifier, from either hardware type.  The
\* requested address is present wherever the loop expects it.
ClientIds(mac) == {None, Some(Client_default_client_id(mac)), Some(<<7, 7>>)}
AllServerRequests ==
    {[wellformed |-> TRUE, is_broadcast |-> f[1],
      dhcp_message_type |-> ty,
      transaction_id |-> x,
      client_ip_address |-> f[2],
      address_request |-> Some(100),
      address_time |-> Some(60),
      dhcp_server_id |-> sid,
      hardware_type |-> ht,
      hardware_address_length |-> IF ht = "Ethernet" THEN 6 ELSE 8,
      gateway_ip_address |-> f[3],
      client_hardware_address |-> 11,
      client_id |-> cid] :
        ty \in {"DhcpDiscover", "DhcpRequest", "DhcpDecline", "DhcpRelease",
                "DhcpInform", "DhcpOffer"},
        x \in Xids,
        f \in BOOLEAN \X {0, 100} \X {0, 9},
        sid \in {None} \cup {Some(a) : a \in ServerAddrs \cup OtherServers},
        ht \in HardwareTypes,
        cid \in ClientIds(11)}
AllDatagrams ==
    {[parses |-> TRUE, message |-> r] : r \in AllServerRequests}
    \cup {[parses |-> TRUE,
           message |-> ClientMessage(discover(0, FALSE, None, 60), FALSE,
                                     FALSE)]}
    \cup {d \in Datagrams : ~d.parses}

\* The answers of Database::allocate, assign, check and renew: a lease, or an
\* error.
DbResults ==
    {[ok |-> TRUE, error |-> "", address |-> 100, lease_time |-> 60],
     [ok |-> FALSE, error |-> "LeaseInvalid", address |-> 0, lease_time |-> 0],
     [ok |-> FALSE, error |-> "Other", address |-> 0, lease_time |-> 0]}

\* server/src/builder.rs: the fields of the responses.
ServerMessage(ty, request, ciaddr, yiaddr, siaddr, lease_time) ==
    [dhcp_message_type |-> ty,
     operation_code |-> "BootReply",
     hardware_type |-> "Ethernet",
     hardware_address_length |-> request.hardware_address_length,
     transaction_id |-> request.transaction_id,
     is_broadcast |-> request.is_broadcast,
     client_ip_address |-> ciaddr, your_ip_address |-> yiaddr,
     server_ip_address |-> siaddr,
     gateway_ip_address |-> request.gateway_ip_address,
     client_hardware_address |-> request.client_hardware_address,
     dhcp_server_id |-> Some(server_ip_address),
     address_time |-> lease_time]

dhcp_discover_to_offer(discover_, offer) ==
    ServerMessage("DhcpOffer", discover_, 0, offer.address, 0,
                  Some(offer.lease_time))

dhcp_request_to_ack(request, ack) ==
    ServerMessage("DhcpAck", request, request.client_ip_address, ack.address,
                  server_ip_address, Some(ack.lease_time))

dhcp_inform_to_ack(inform_, message) ==
    ServerMessage("DhcpAck", inform_, inform_.client_ip_address, 0,
                  server_ip_address, None)

dhcp_request_to_nak(request, error) ==
    ServerMessage("DhcpNak", request, 0, 0, 0, None)

\* GenericServer::destination: the address, and whether hardware unicast is
\* needed.
Server_destination(request, response) ==
    IF request.client_ip_address # 0
    THEN [ip |-> request.client_ip_address, hw_unicast |-> FALSE]
    ELSE IF request.is_broadcast
    THEN [ip |-> BROADCAST, hw_unicast |-> FALSE]
    ELSE [ip |-> response.your_ip_address, hw_unicast |-> TRUE]

\* What an iteration of the loop does to its collaborators, in the order of
\* the code: the call of the database, dhcp_arp::add, Sink::start_send.
DbCall(op, client_id, address, time) ==
    [op |-> op, client_id |-> client_id, address |-> address, time |-> time]
ArpAdd(hwaddr, ip, ok) ==
    [op |-> "arp", hwaddr |-> hwaddr, ip |-> ip, ok |-> ok]
StartSend(addr, message) ==
    [op |-> "start_send", addr |-> addr, message |-> message]
\* No call of the database was made.
NotCalled ==
    [ok |-> FALSE, error |-> "NotCalled", address |-> 0, lease_time |-> 0]
DbOps == {"allocate", "assign", "check", "renew", "freeze", "deallocate"}

\* The client identifier the database is called with.
Server_client_id(request) ==
    IF request.client_id.some THEN request.client_id.v
    ELSE as_bytes(request.client_hardware_address)

\* send_response of a Nak to the destination of the Offers and Acks.
Server_nak_by_destination(request, error) ==
    <<StartSend(<<Server_destination(
                      request, dhcp_request_to_nak(request, error)).ip,
                  DHCP_PORT_CLIENT>>,
                dhcp_request_to_nak(request, error))>>

\* destination() and send_response of `response`: dhcp_arp::add in the
\* hardware unicast case, `arp` being whether it succeeds (a failure is
\* logged), then start_send.
Server_reply(request, response, arp) ==
    LET d == Server_destination(request, response)
    IN  (IF d.hw_unicast
         THEN <<ArpAdd(request.client_hardware_address,
                       response.your_ip_address, arp)>>
         ELSE <<>>)
        \o <<StartSend(<<d.ip, DHCP_PORT_CLIENT>>, response)>>
\* send_response of a DhcpNak, to the limited broadcast address.
Server_nak(request, error) ==
    <<StartSend(<<BROADCAST, DHCP_PORT_CLIENT>>,
                dhcp_request_to_nak(request, error))>>

\* What dhcp_arp::add may answer for `request`: it is called, and may fail,
\* only on the way to a hardware unicast.
ArpResults(request) ==
    IF request.client_ip_address = 0 /\ ~request.is_broadcast
    THEN BOOLEAN ELSE {TRUE}

\* The server-id check that lets every request through.
Server_for_other_never(request) == FALSE

\* The request names another server in its dhcp_server_id option.
Server_for_other(request) ==
    /\ request.dhcp_server_id.some
    /\ request.dhcp_server_id.v # server_ip_address

\* expect!(request.options.address_request) in the SELECTING and INIT-REBOOT
\* branches and in DhcpDecline: the option is absent and the server panics
\* with "A bug in DHCP message validation".
Server_expect_fails(request) ==
    /\ Message_validate(request).ok
    /\ ~Server_for_other(request)
    /\ ~request.address_request.some
    /\ \/ /\ request.dhcp_message_type = "DhcpRequest"
          /\ request.dhcp_server_id.some \/ request.client_ip_address = 0
       \/ request.dhcp_message_type = "DhcpDecline"

\* MessageType::DhcpDiscover
Server_discover(request, db, arp) ==
    <<DbCall("allocate", Server_client_id(request), request.address_request,
             request.address_time)>>
    \o (IF db.ok
        THEN Server_reply(request, dhcp_discover_to_offer(request, db), arp)
        ELSE <<>>)

\* The SELECTING branch that stays silent when assign fails.
Server_request_selecting_silent(request, db, arp) ==
    <<DbCall("assign", Server_client_id(request), request.address_request.v,
             request.address_time)>>
    \o (IF db.ok
        THEN Server_reply(request, dhcp_request_to_ack(request, db), arp)
        ELSE <<>>)

\* MessageType::DhcpRequest, the client is in the SELECTING state.
Server_request_selecting(request, db, arp) ==
    <<DbCall("assign", Server_client_id(request), request.address_request.v,
             request.address_time)>>
    \o (IF db.ok
        THEN Server_reply(request, dhcp_request_to_ack(request, db), arp)
        ELSE Server_nak(request, db.error))

\* The INIT-REBOOT branch that answers every failure of check with a Nak.
Server_request_init_reboot_naks(request, db, arp) ==
    <<DbCall("check", Server_client_id(request), request.address_request.v,
             None)>>
    \o (IF db.ok
        THEN Server_reply(request, dhcp_request_to_ack(request, db), arp)
        ELSE Server_nak(request, db.error))

\* MessageType::DhcpRequest, the client is in the INIT-REBOOT state.
Server_request_init_reboot(request, db, arp) ==
    <<DbCall("check", Server_client_id(request), request.address_request.v,
             None)>>
    \o (IF db.ok
        THEN Server_reply(request, dhcp_request_to_ack(request, db), arp)
        ELSE IF db.error = "LeaseInvalid"
        THEN Server_nak(request, db.error)
        ELSE <<>>)

\* MessageType::DhcpRequest, the client is in the RENEWING or REBINDING state.
Server_request_renewing(request, db, arp) ==
    <<DbCall("renew", Server_client_id(request), request.client_ip_address,
             request.address_time)>>
    \o (IF db.ok
        THEN Server_reply(request, dhcp_request_to_ack(request, db), arp)
        ELSE <<>>)

\* DhcpDecline answered with a DhcpNak.
Server_decline_answered(request) ==
    <<DbCall("freeze", <<>>, request.address_request.v, None)>>
    \o Server_nak(request, "Declined")

\* MessageType::DhcpDecline
Server_decline(request) ==
    <<DbCall("freeze", <<>>, request.address_request.v, None)>>

\* MessageType::DhcpRelease
Server_release(request) ==
    <<DbCall("deallocate", Server_client_id(request),
             request.client_ip_address, None)>>

\* MessageType::DhcpInform
Server_inform(request, arp) ==
    Server_reply(request, dhcp_inform_to_ack(request, "Accepted"), arp)

\* The body of the loop of GenericServer::poll after poll_stream!: validate!,
\* the server-id check and the match on the message type.  What the
\* iteration does, in order; `db` is the answer of the one database call the
\* branch makes and `arp` whether dhcp_arp::add succeeds.
Server_dispatch(request, db, arp) ==
    LET dhcp_message_type == Message_validate(request)
        ty == dhcp_message_type.dhcp_message_type
    IN  IF ~dhcp_message_type.ok THEN <<>>
        ELSE IF Server_for_other(request) THEN <<>>
        ELSE CASE ty = "DhcpDiscover" -> Server_discover(request, db, arp)
               [] ty = "DhcpRequest" /\ request.dhcp_server_id.some ->
                    Server_request_selecting(request, db, arp)
               [] ty = "DhcpRequest" /\ ~request.dhcp_server_id.some
                     /\ request.client_ip_address = 0 ->
                    Server_request_init_reboot(request, db, arp)
               [] ty = "DhcpRequest" /\ ~request.dhcp_server_id.some
                     /\ request.client_ip_address # 0 ->
                    Server_request_renewing(request, db, arp)
               [] ty = "DhcpDecline" -> Server_decline(request)
               [] ty = "DhcpRelease" -> Server_release(request)
               [] ty = "DhcpInform" -> Server_inform(request, arp)
               [] OTHER -> <<>>

\* The item the iteration hands to start_send, if any: send_response is its
\* last step.
Server_response(effects) ==
    IF effects # <<>> /\ effects[Len(effects)].op = "start_send"
    THEN Some([addr |-> effects[Len(effects)].addr,
               message |-> effects[Len(effects)].message])
    ELSE None

\* Stream for DhcpFramed::poll_next that hands on what it read whether it
\* parses or not.
DhcpFramed_poll_next_unparsed(rx) ==
    IF rx = <<>> THEN [rx |-> rx, item |-> None]
    ELSE [rx |-> Tail(rx), item |-> Some(Head(rx).message)]

\* Stream for DhcpFramed::poll_next over the datagrams `rx` the socket holds:
\* the datagrams left and the item, None for Poll::Pending.  A datagram that
\* does not parse is logged and the loop reads on.
RECURSIVE DhcpFramed_poll_next(_)
DhcpFramed_poll_next(rx) ==
    IF rx = <<>> THEN [rx |-> rx, item |-> None]
    ELSE IF Head(rx).parses
    THEN [rx |-> Tail(rx), item |-> Some(Head(rx).message)]
    ELSE DhcpFramed_poll_next(Tail(rx))

\* Server::new: the DhcpFramed has nothing pending, the socket has read and
\* written nothing.
ServerInit ==
    /\ server = [socket |-> [pending |-> None], done |-> FALSE]
    /\ udp = [rx |-> <<>>, tx |-> <<>>]
    /\ calls = [arrived |-> <<>>, started |-> <<>>, yielded |-> <<>>]
    /\ database = NoServer
    /\ ev = [kind |-> "new"]
    /\ out = NoItem
    /\ timer = NoTimer
    /\ ClientIdle

\* A datagram reaches the socket.
Udp_arrive ==
    /\ Len(calls.arrived) < MaxDatagrams
    /\ \E d \in Datagrams :
        /\ udp' = [udp EXCEPT !.rx = Append(@, d)]
        /\ calls' = [calls EXCEPT !.arrived = Append(@, d)]
    /\ ev' = [kind |-> "arrive"]
    /\ out' = NoItem
    /\ UNCHANGED <<server, database, state, io, options, timer_vars>>

\* poll_flush! with a datagram pending and the socket ready to write: the
\* datagram is written whole ("sent") or in part ("short"), or the socket
\* refuses it; an error ends the future.
Server_poll_flush ==
    /\ ~server.done
    /\ server.socket.pending.some
    /\ \E result \in SendResults :
        LET r == poll_flush(server.socket, result)
        IN  /\ server' = [socket |-> r.io, done |-> ~r.ok]
            /\ udp' = IF result = "error" THEN udp
                      ELSE [udp EXCEPT !.tx =
                               Append(@, [addr |-> server.socket.pending.v.addr,
                                          message |->
                                              server.socket.pending.v.message,
                                          whole |-> result = "sent"])]
            /\ ev' = [kind |-> "complete", result |-> result]
            /\ out' = IF r.ok THEN NoItem ELSE Err(r.error)
    /\ UNCHANGED <<calls, database, state, io, options, timer_vars>>

\* The rest of an iteration, nothing being pending and the socket having
\* datagrams to read: poll_stream!, then the body of the loop and at most one
\* send_response.  An encoding error of start_send ends the future.
Server_poll_stream ==
    /\ ~server.done
    /\ ~server.socket.pending.some
    /\ udp.rx # <<>>
    /\ LET p == DhcpFramed_poll_next(udp.rx)
       IN  /\ udp' = [udp EXCEPT !.rx = p.rx]
           /\ IF ~p.item.some
              THEN /\ ev' = [kind |-> "pending"]
                   /\ out' = NoItem
                   /\ UNCHANGED <<server, calls>>
              ELSE \E db \in DbResults, arp \in ArpResults(p.item.v),
                      encoded \in BOOLEAN :
                    LET request == p.item.v
                        effects == Server_dispatch(request, db, arp)
                        response == Server_response(effects)
                        r == IF response.some
                             THEN start_send(server.socket, response.v.addr,
                                             response.v.message, encoded)
                             ELSE [io |-> server.socket, ok |-> TRUE]
                    IN  /\ ev' = [kind |-> "recv", request |-> request,
                                  db |-> IF \E i \in 1..Len(effects) :
                                                effects[i].op \in DbOps
                                         THEN db ELSE NotCalled,
                                  effects |-> effects, ok |-> r.ok]
                        /\ server' = [socket |-> r.io, done |-> ~r.ok]
                        /\ out' = IF r.ok THEN NoItem ELSE Err("Encode")
                        /\ calls' =
                              [calls EXCEPT
                                  !.yielded = Append(@, request),
                                  !.started =
                                      IF response.some /\ r.ok
                                      THEN Append(@, response.v) ELSE @]
    /\ UNCHANGED <<database, state, io, options, timer_vars>>

\* poll_stream! when the socket fails to read: the error ends the future.
Server_recv_error ==
    /\ ~server.done
    /\ ~server.socket.pending.some
    /\ server' = [server EXCEPT !.done = TRUE]
    /\ ev' = [kind |-> "ioerr"]
    /\ out' = Err("Socket")
    /\ UNCHANGED <<udp, calls, database, state, io, options, timer_vars>>

ServerNext ==
    \/ Udp_arrive
    \/ Server_poll_flush
    \/ Server_poll_stream
    \/ Server_recv_error

ServerSpec == ServerInit /\ [][ServerNext]_vars

\* ------------------------------------------------- the framed sink by itself
\* DhcpFramed as a Sink driven as the Sink contract asks: start_send after a
\* poll_ready that returned Ready(Ok), poll_ready and poll_flush at any time,
\* the socket answering poll_send_to in any of its four ways.
SinkItems ==
    {[addr |-> <<a, DHCP_PORT_SERVER>>, message |-> m] :
        a \in {BROADCAST} \cup ServerAddrs,
        m \in {discover(x, FALSE, None, 60) : x \in Xids}
              \cup {request_renew(x, FALSE, 100, 60) : x \in Xids}
              \cup {release(x, 100, 2, "") : x \in Xids}}

SinkInit ==
    /\ \E mode \in {"Raw", "Udp"} : io = [mode |-> mode, pending |-> None]
    /\ state = State_new("Init", None, 0)
    /\ options = [address_request |-> None, address_time |-> 60]
    /\ ev = [kind |-> "new"]
    /\ out = NoItem
    /\ timer = NoTimer
    /\ ServerIdle

\* What the caller of a poll gets.
Returned(r) ==
    IF ~r.ready THEN [kind |-> "Pending"]
    ELSE IF r.ok THEN [kind |-> "Ok"]
    ELSE Err(r.error)

Sink_start_send ==
    /\ ~io.pending.some
    /\ \E item \in SinkItems, encoded \in BOOLEAN :
        LET r == start_send(io, item.addr, item.message, encoded)
        IN  /\ io' = r.io
            /\ ev' = [kind |-> "start", item |-> item, ok |-> r.ok]
            /\ out' = IF r.ok THEN [kind |-> "Ok"] ELSE Err("Encode")
    /\ UNCHANGED <<state, options, timer_vars, server_vars>>

Sink_poll_ready ==
    /\ \E result \in PollResults :
        LET r == poll_ready(io, result)
        IN  /\ io' = r.io
            /\ ev' = [kind |-> "poll", op |-> "poll_ready",
                      result |-> IF io.pending.some THEN result ELSE "idle"]
            /\ out' = Returned(r)
    /\ UNCHANGED <<state, options, timer_vars, server_vars>>

Sink_poll_flush ==
    /\ \E result \in PollResults :
        LET r == poll_flush(io, result)
        IN  /\ io' = r.io
            /\ ev' = [kind |-> "poll", op |-> "poll_flush",
                      result |-> IF io.pending.some THEN result ELSE "idle"]
            /\ out' = Returned(r)
    /\ UNCHANGED <<state, options, timer_vars, server_vars>>

SinkNext ==
    \/ Sink_start_send
    \/ Sink_poll_ready
    \/ Sink_poll_flush

SinkSpec == SinkInit /\ [][SinkNext]_vars

\* ------------------------------------------- requests of every kind in turn
\* The server reading a sequence of datagrams that holds requests it answers
\* (DhcpDiscover, DhcpRequest, DhcpInform) and requests it does not (Decline,
\* Release, a message type it ignores, a message that fails validation, a
\* request for another server, a datagram that does not parse).
FifoDatagrams ==
    {[parses |-> TRUE, message |-> m] :
        m \in {ClientMessage(discover(0, TRUE, None, 60), TRUE, TRUE),
               ClientMessage(request_selecting(1, FALSE, 100, Some(60),
                                               server_ip_address),
                             TRUE, FALSE),
               ClientMessage(request_selecting(1, FALSE, 100, Some(60), 3),
                             TRUE, FALSE),
               ClientMessage(decline(0, 100, server_ip_address, ""),
                             TRUE, FALSE),
               ClientMessage(release(1, 100, server_ip_address, ""),
                             TRUE, FALSE),
               ClientMessage(inform(0, FALSE, 101), TRUE, FALSE),
               [ClientMessage(discover(1, TRUE, None, 60), TRUE, TRUE)
                    EXCEPT !.dhcp_message_type = "DhcpOffer"],
               ClientMessage(discover(1, TRUE, None, 60), FALSE, TRUE)}}
    \cup {d \in Datagrams : ~d.parses}

Fifo_arrive ==
    /\ Len(calls.arrived) < MaxDatagrams
    /\ \E d \in FifoDatagrams :
        /\ udp' = [udp EXCEPT !.rx = Append(@, d)]
        /\ calls' = [calls EXCEPT !.arrived = Append(@, d)]
    /\ ev' = [kind |-> "arrive"]
    /\ out' = NoItem
    /\ UNCHANGED <<server, database, state, io, options, timer_vars>>

FifoNext ==
    \/ Fifo_arrive
    \/ Server_poll_flush
    \/ Server_poll_stream
    \/ Server_recv_error

FifoSpec == ServerInit /\ [][FifoNext]_vars

\* ------------------------------------------------- one request at the server
\* The server with one datagram in its socket, drawn from the requests of any
\* client, and no further arrivals: one iteration of the loop handles it and
\* the next flushes the reply.
DispatchInit ==
    /\ server = [socket |-> [pending |-> None], done |-> FALSE]
    /\ \E d \in AllDatagrams :
        /\ udp = [rx |-> <<d>>, tx |-> <<>>]
        /\ calls = [arrived |-> <<d>>, started |-> <<>>, yielded |-> <<>>]
    /\ database = NoServer
    /\ ev = [kind |-> "new"]
    /\ out = NoItem
    /\ timer = NoTimer
    /\ ClientIdle

DispatchNext ==
    \/ Server_poll_flush
    \/ Server_poll_stream
    \/ Server_recv_error

DispatchSpec == DispatchInit /\ [][DispatchNext]_vars

\* ------------------------------------------------------- the lease database
\* server/src/database.rs, lease.rs and storage.rs are not among the source
\* files.  The database is the one of sections 3 and 4.5.2: a lease per
\* client identifier, with an address and a state, over a static and a
\* dynamic range, and a set of frozen addresses.  Its operations are called
\* with the arguments GenericServer::poll passes them.
StaticRange == {50}
DynamicRange == {100, 101}
\* The addresses a request may name: those of the ranges and one outside.
DbAddresses == StaticRange \cup DynamicRange \cup {200}
\* Client identifiers: the default ones of two clients and a bare hardware
\* address.
DbClients ==
    {Client_default_client_id(m) : m \in MacAddresses} \cup {as_bytes(11)}
LeaseStates == {"Offered", "Assigned", "Frozen", "Released"}
NoLease == [address |-> 0, state |-> "None"]
Lease(address, lease_state) == [address |-> address, state |-> lease_state]

InRange(address) == address \in StaticRange \cup DynamicRange
\* The lease holds its address: it is neither frozen nor released.
Active(lease) == lease.state \in {"Offered", "Assigned"}
Holder(d, address) ==
    {c \in DbClients : Active(d.leases[c]) /\ d.leases[c].address = address}
Free(d, address) == address \notin d.frozen /\ Holder(d, address) = {}
Lowest(addresses) == CHOOSE a \in addresses : \A b \in addresses : a <= b

\* allocate that hands out the requested address whether it is free or not.
Database_allocate_requested(d, cid, requested) ==
    IF requested.some /\ InRange(requested.v) THEN requested.v
    ELSE 0

\* allocate that prefers the requested address to the lease the client has.
Database_allocate_prefers_requested(d, cid, requested) ==
    LET lease == d.leases[cid]
        free == {a \in DynamicRange : Free(d, a)}
    IN  IF requested.some /\ InRange(requested.v) /\ Free(d, requested.v)
        THEN requested.v
        ELSE IF Active(lease) THEN lease.address
        ELSE IF free # {} THEN Lowest(free)
        ELSE 0

\* allocate that returns the address of the client's lease also when the
\* lease is frozen.
Database_allocate_frozen(d, cid, requested) ==
    LET lease == d.leases[cid]
        free == {a \in DynamicRange : Free(d, a)}
    IN  IF lease.state \in {"Offered", "Assigned", "Frozen"}
        THEN lease.address
        ELSE IF requested.some /\ InRange(requested.v)
                /\ Free(d, requested.v) THEN requested.v
        ELSE IF free # {} THEN Lowest(free)
        ELSE 0

\* allocate (section 4.5.2, allocation policy): the address of the client's
\* lease; else its prior address if free; else the requested address if free
\* and in a range; else the lowest free dynamic address; 0 when the pool is
\* exhausted.
Database_allocate(d, cid, requested) ==
    LET lease == d.leases[cid]
        free == {a \in DynamicRange : Free(d, a)}
    IN  IF Active(lease) THEN lease.address
        ELSE IF lease.state = "Released" /\ Free(d, lease.address)
        THEN lease.address
        ELSE IF requested.some /\ InRange(requested.v)
                /\ Free(d, requested.v) THEN requested.v
        ELSE IF free # {} THEN Lowest(free)
        ELSE 0

\* Server::new: no lease, nothing frozen.
DatabaseInit ==
    /\ database = [leases |-> [c \in DbClients |-> NoLease], frozen |-> {}]
    /\ ev = [kind |-> "new"]
    /\ out = NoItem
    /\ timer = NoTimer
    /\ server = NoServer
    /\ udp = NoServer
    /\ calls = NoServer
    /\ ClientIdle

DbStep(op, cid, address, ok, d) ==
    /\ database' = d
    /\ ev' = [kind |-> "db", op |-> op, client_id |-> cid,
              address |-> address, ok |-> ok]
    /\ UNCHANGED <<state, io, options, out, timer, server, udp, calls>>

\* DhcpDiscover: allocate(client_id, address_time, address_request); the
\* lease is created Offered.
Db_allocate ==
    \E cid \in DbClients, requested \in {None} \cup {Some(a) : a \in DbAddresses} :
        LET a == Database_allocate(database, cid, requested)
        IN  IF a = 0 THEN DbStep("allocate", cid, 0, FALSE, database)
            ELSE DbStep("allocate", cid, a, TRUE,
                        [database EXCEPT !.leases[cid] =
                            IF Active(@) /\ @.address = a THEN @
                            ELSE Lease(a, "Offered")])

\* DhcpRequest in SELECTING: assign(client_id, address_request, address_time);
\* the address must be the one offered to the client (or known to be its
\* own).
Db_assign ==
    \E cid \in DbClients, address \in DbAddresses :
        IF Active(database.leases[cid])
              /\ database.leases[cid].address = address
        THEN DbStep("assign", cid, address, TRUE,
                    [database EXCEPT !.leases[cid] = Lease(address, "Assigned")])
        ELSE DbStep("assign", cid, address, FALSE, database)

\* DhcpRequest in INIT-REBOOT: check(client_id, address_request); no lease is
\* changed.
Db_check ==
    \E cid \in DbClients, address \in DbAddresses :
        DbStep("check", cid, address,
               database.leases[cid] = Lease(address, "Assigned"),
               database)

\* DhcpRequest in RENEWING or REBINDING: renew(client_id, ciaddr,
\* address_time); the lease stays, its expiration moves.
Db_renew ==
    \E cid \in DbClients, address \in DbAddresses :
        DbStep("renew", cid, address,
               database.leases[cid] = Lease(address, "Assigned"),
               database)

\* DhcpDecline: freeze(address_request); the address becomes unavailable and
\* the lease on it Frozen.
Db_freeze ==
    \E address \in DbAddresses :
        DbStep("freeze", <<>>, address, TRUE,
               [leases |-> [c \in DbClients |->
                               IF database.leases[c].address = address
                                     /\ database.leases[c].state # "None"
                               THEN Lease(address, "Frozen")
                               ELSE database.leases[c]],
                frozen |-> database.frozen \cup {address}])

\* DhcpRelease: deallocate(client_id, ciaddr); the client must hold the
\* address.
Db_deallocate ==
    \E cid \in DbClients, address \in DbAddresses :
        IF Active(database.leases[cid])
              /\ database.leases[cid].address = address
        THEN DbStep("deallocate", cid, address, TRUE,
                    [database EXCEPT !.leases[cid] = Lease(address, "Released")])
        ELSE DbStep("deallocate", cid, address, FALSE, database)

\* A lease expires, or an offer that was not confirmed is reaped: the lease
\* is destroyed.
Db_expire ==
    \E cid \in DbClients :
        /\ Active(database.leases[cid])
        /\ DbStep("expire", cid, database.leases[cid].address, TRUE,
                  [database EXCEPT !.leases[cid] = NoLease])

DatabaseNext ==
    \/ Db_allocate
    \/ Db_assign
    \/ Db_check
    \/ Db_renew
    \/ Db_freeze
    \/ Db_deallocate
    \/ Db_expire

DatabaseSpec == DatabaseInit /\ [][DatabaseNext]_vars

\* =================================================================== properties
EntersBound == state'.dhcp_state = "Bound" /\ state.dhcp_state # "Bound"
AwaitingAck ==
    {"RequestingSent", "RebootingSent", "RenewingSent", "RebindingSent"}

\* A step that received a response which validates and carries the xid the
\* client had when it arrived.
RecvCurrent ==
    /\ ev'.kind = "recv"
    /\ Message_validate(ev'.response).ok
    /\ ev'.response.transaction_id = state.xid

\* C1: the client enters BOUND only as the immediate result of receiving,
\* while waiting in REQUESTING, REBOOTING, RENEWING or REBINDING, a message
\* that validates, carries the current xid and is a DhcpAck; no timer tick, no
\* other message type, no invalid message and no message of another xid moves
\* it to BOUND.
C1_BoundOnlyByCurrentAck ==
    [][EntersBound =>
          /\ state.dhcp_state \in AwaitingAck
          /\ RecvCurrent
          /\ ev'.response.dhcp_message_type = "DhcpAck"]_vars

\* C1 witness: the client is BOUND right after a received message.
C1_Witness ==
    /\ state.dhcp_state = "Bound"
    /\ ev.kind = "recv"
    /\ ev.response.dhcp_message_type = "DhcpAck"
    /\ ev.response.transaction_id = state.xid

\* The Configuration the client is to build from an Ack, written out field by
\* field (RFC 3442: classless static routes hide routers and static routes).
ExpectedConfiguration(ack) ==
    [your_ip_address |-> ack.your_ip_address,
     server_ip_address |-> ack.server_ip_address,
     subnet_mask |-> ack.subnet_mask,
     domain_name_servers |-> ack.domain_name_servers,
     routers |-> IF ack.classless_static_routes = None THEN ack.routers
                 ELSE None,
     static_routes |-> IF ack.classless_static_routes = None
                       THEN ack.static_routes ELSE None,
     classless_static_routes |-> ack.classless_static_routes]

\* C2: the stream yields exactly one Configuration per transition into BOUND,
\* built from the DhcpAck that caused the transition, and no Configuration at
\* any other time: an iteration returns a Configuration item if and only if it
\* enters BOUND, and the item is the Configuration of the Ack just received.
C2_OneConfigurationPerBound ==
    [][/\ EntersBound =>
            /\ ev'.kind = "recv"
            /\ out' = [kind |-> "Configuration",
                       configuration |-> ExpectedConfiguration(ev'.response)]
       /\ out'.kind = "Configuration" => EntersBound]_vars

\* C2 witness: a Configuration was yielded for an Ack that carried routers and
\* classless static routes, on a renewal (the lease was already recorded).
C2_Witness ==
    /\ out.kind = "Configuration"
    /\ state.dhcp_state = "Bound"
    /\ ev.kind = "recv"
    /\ ev.response.routers # None
    /\ ev.response.classless_static_routes # None
    /\ io.mode = "Udp"

\* C3: the stream yields an error item only on a transport failure; the expiry
\* of a backoff or halving timer never produces an item, in particular no
\* Timeout error.
C3_NoItemFromTimer ==
    /\ ev.kind = "tick" => out = NoItem
    /\ out.kind = "Err" => out.error \in {"Socket", "Other", "Encode"}

\* C4: in SELECTING (waiting for a DhcpOffer), when the backoff timer reports
\* expiry before an acceptable offer arrived, the client returns to INIT.
C4_SelectingExpiryReturnsToInit ==
    [][(state.dhcp_state = "SelectingSent" /\ ev'.kind = "tick"
            /\ ev'.expired)
          => state'.dhcp_state = "Init"]_vars

\* C5: in REQUESTING and in REBOOTING a valid DhcpNak of the current xid moves
\* the client to INIT and yields no Configuration; a valid message of the
\* current xid and of any type but DhcpAck and DhcpNak is discarded: the
\* client state, the socket and the pending slot are as before and nothing is
\* yielded.
C5_NakResetsOthersDiscarded ==
    [][(state.dhcp_state \in {"RequestingSent", "RebootingSent"}
            /\ RecvCurrent)
          => /\ ev'.response.dhcp_message_type = "DhcpNak"
                  => state'.dhcp_state = "Init" /\ out' = NoItem
             /\ ev'.response.dhcp_message_type \notin {"DhcpAck", "DhcpNak"}
                  => state' = state /\ io' = io /\ out' = NoItem]_vars

\* C5 witness: a DhcpNak has just reset a client that was rebooting (its
\* address request came from the previous address) to INIT.
C5_Witness ==
    /\ state.dhcp_state = "Init"
    /\ ev.kind = "recv"
    /\ ev.response.dhcp_message_type = "DhcpNak"
    /\ options.address_request # None
    /\ state.offered_address = 0
    /\ out = NoItem

\* C6: in RENEWING and in REBINDING a valid DhcpNak of the current xid returns
\* the client to INIT.
C6_NakWhileRenewingReturnsToInit ==
    [][(state.dhcp_state \in {"RenewingSent", "RebindingSent"}
            /\ RecvCurrent
            /\ ev'.response.dhcp_message_type = "DhcpNak")
          => state'.dhcp_state = "Init"]_vars

\* The DhcpRequest in the pending slot after a step.
Sent == io'.pending.v.message
SelectingRequest ==
    Request("DhcpRequest", state.xid, 0, Some(state.offered_address),
            state.dhcp_server_id)
InitRebootRequest ==
    Request("DhcpRequest", state.xid, 0, options.address_request, None)

\* C7: while waiting for an Ack in REQUESTING (resp. REBOOTING) a backoff tick
\* that is not expired takes the client back to send the same selecting (resp.
\* init-reboot) DhcpRequest, with the xid and the recorded offer unchanged,
\* and to wait again; the expired tick resets the client to INIT; a tick has
\* no other outcome and yields nothing.
C7_AckBackoffRetransmitsOrRestarts ==
    [][/\ (state.dhcp_state = "RequestingSent" /\ ev'.kind = "tick")
            => /\ out' = NoItem
               /\ IF ev'.expired THEN state'.dhcp_state = "Init"
                  ELSE /\ state'.dhcp_state = "Requesting"
                       /\ state'.xid = state.xid
                       /\ state'.offered_address = state.offered_address
                       /\ state'.dhcp_server_id = state.dhcp_server_id
       /\ (state.dhcp_state = "RebootingSent" /\ ev'.kind = "tick")
            => /\ out' = NoItem
               /\ IF ev'.expired THEN state'.dhcp_state = "Init"
                  ELSE /\ state'.dhcp_state = "Rebooting"
                       /\ state'.xid = state.xid
       /\ (state.dhcp_state = "Requesting" /\ state' # state)
            => /\ state'.dhcp_state = "RequestingSent"
               /\ io'.pending.some
               /\ Sent = SelectingRequest
       /\ (state.dhcp_state = "Rebooting" /\ state' # state)
            => /\ state'.dhcp_state = "RebootingSent"
               /\ io'.pending.some
               /\ Sent = InitRebootRequest]_vars

\* C7 witness: the selecting DhcpRequest has just been sent again after a
\* backoff tick (timer_ack has doubled since it was started).
C7_Witness ==
    /\ state.dhcp_state = "RequestingSent"
    /\ ev.kind = "send"
    /\ io.pending.some
    /\ io.pending.v.message.dhcp_server_id # None
    /\ state.timer_ack.some
    /\ state.timer_ack.v.current = 2 * BACKOFF_TIMEOUT_INITIAL

\* C8: when the halving timer reports expired without an accepted DhcpAck,
\* RENEWING moves to REBINDING and REBINDING moves to INIT; a tick that is not
\* expired takes the client back to send the renewing DhcpRequest again and to
\* stay in the same phase.
RenewRequest ==
    Request("DhcpRequest", state.xid, state.assigned_address, None, None)
C8_HalvingExpiryAdvances ==
    [][/\ (state.dhcp_state = "RenewingSent" /\ ev'.kind = "tick")
            => state'.dhcp_state =
                   IF ev'.expired THEN "Rebinding" ELSE "Renewing"
       /\ (state.dhcp_state = "RebindingSent" /\ ev'.kind = "tick")
            => state'.dhcp_state =
                   IF ev'.expired THEN "Init" ELSE "Rebinding"
       /\ (state.dhcp_state = "Renewing" /\ state' # state)
            => /\ state'.dhcp_state = "RenewingSent"
               /\ io'.pending.some
               /\ Sent = RenewRequest
       /\ (state.dhcp_state = "Rebinding" /\ state' # state)
            => /\ state'.dhcp_state = "RebindingSent"
               /\ io'.pending.some
               /\ Sent = RenewRequest]_vars

\* C8 witness: the client is in REBINDING after the halving timer of RENEWING
\* expired, having retransmitted in RENEWING before (that timer ticked without
\* expiring only for the long lease).
C8_Witness ==
    /\ state.dhcp_state = "Rebinding"
    /\ ev.kind = "tick"
    /\ ev.expired
    /\ state.lease_time = 1920
    /\ state.timer_expiration.some

\* C9, as stated: every message the client sends carries the xid of the
\* state, the xid is the same from one passage through INIT to the next, and
\* it changes on every transition through INIT.
EntersInit == state'.dhcp_state = "Init" /\ state.dhcp_state # "Init"
C10_RejectedMessageHasNoEffect ==
    [][(state.dhcp_state \in WaitingStates
            /\ ev'.kind = "recv"
            /\ (~Message_validate(ev'.response).ok
                    \/ ev'.response.transaction_id # state.xid))
          => state' = state /\ io' = io /\ out' = NoItem]_vars

\* C10 witness: an Ack of another xid was received while waiting for the Ack
\* in REQUESTING, and the client still waits.
C10_Witness ==
    /\ state.dhcp_state = "RequestingSent"
    /\ ev.kind = "recv"
    /\ ev.response.dhcp_message_type = "DhcpAck"
    /\ ev.response.wellformed
    /\ ev.response.transaction_id # state.xid

\* C11: the transport mode follows the client state.  The INIT and INIT-REBOOT
\* arms leave with the socket in raw mode, and the socket is in raw mode
\* whenever INIT is entered; BOUND passes to RENEWING with the socket in UDP
\* mode; the REBINDING arm switches back to raw mode before it sends.  Hence
\* each DhcpDiscover, selecting, init-reboot and rebinding DhcpRequest is
\* sent in raw mode and each renewing DhcpRequest in UDP mode.
RawStates ==
    {"Selecting", "SelectingSent", "Requesting", "RequestingSent",
     "Rebooting", "RebootingSent", "RebindingSent"}
C11_ModeFollowsState ==
    [][/\ (state.dhcp_state \in {"Init", "InitReboot"}
              /\ state'.dhcp_state # state.dhcp_state) => io'.mode = "Raw"
       /\ EntersInit => io'.mode = "Raw"
       /\ (state.dhcp_state = "Bound" /\ state'.dhcp_state = "Renewing")
            => io'.mode = "Udp"
       /\ (state.dhcp_state = "Rebinding"
              /\ state'.dhcp_state # state.dhcp_state) => io'.mode = "Raw"
       /\ state'.dhcp_state \in RawStates => io'.mode = "Raw"
       /\ state'.dhcp_state \in {"Renewing", "RenewingSent"}
            => io'.mode = "Udp"
       /\ (ev'.kind = "send" /\ ev'.ok)
            => io'.mode = IF state.dhcp_state = "Renewing" THEN "Udp"
                          ELSE "Raw"]_vars

\* C11 witness: the rebinding DhcpRequest has just been sent over the socket
\* switched back to raw mode (RENEWING had it in UDP mode).
C11_Witness ==
    /\ state.dhcp_state = "RebindingSent"
    /\ ev.kind = "send"
    /\ ev.ok
    /\ io.mode = "Raw"
    /\ io.pending.some
    /\ io.pending.v.message.client_ip_address = state.assigned_address

\* A step that queued a message on the transport, from the state machine or
\* from a command.
Queued ==
    /\ io'.pending.some
    /\ \/ ev'.kind = "send" /\ ev'.ok
       \/ ev'.kind = "command" /\ ev'.result = "Ok"

\* C12: every message the client sends, from the state machine or from a
\* command, is addressed to 255.255.255.255:67 when the socket is in raw
\* mode, or the server id is unknown, or the message is a DhcpDiscover, a
\* DhcpInform, a rebinding DhcpRequest or a DhcpDecline; otherwise it is
\* addressed to dhcp_server_id:67.
C12_DestinationRule ==
    [][Queued =>
          io'.pending.v.addr =
              IF \/ io'.mode = "Raw"
                 \/ ~state.dhcp_server_id.some
                 \/ Sent.dhcp_message_type
                        \in {"DhcpDiscover", "DhcpInform", "DhcpDecline"}
                 \/ ev'.kind = "send" /\ state.dhcp_state = "Rebinding"
              THEN <<BROADCAST, DHCP_PORT_SERVER>>
              ELSE <<state.dhcp_server_id.v, DHCP_PORT_SERVER>>]_vars

\* C15: a Release or Decline command given while no server id is known fails
\* with AddrNotAvailable and has no effect: nothing is queued and the client
\* state is as before.  With a server id known, the DhcpRelease is addressed
\* to dhcp_server_id:67 with ciaddr the assigned address, and the DhcpDecline
\* to 255.255.255.255:67.
C15_ReleaseDeclineNeedServer ==
    [][(ev'.kind = "command" /\ ev'.command \in {"Release", "Decline"})
          => IF ~state.dhcp_server_id.some
             THEN /\ ev'.result = "AddrNotAvailable"
                  /\ io' = io
                  /\ state' = state
                  /\ options' = options
             ELSE /\ ev'.result # "AddrNotAvailable"
                  /\ ev'.result = "Ok" =>
                        /\ io'.pending.some
                        /\ Sent.dhcp_server_id = state.dhcp_server_id
                        /\ IF ev'.command = "Release"
                           THEN /\ io'.pending.v.addr =
                                      <<state.dhcp_server_id.v,
                                        DHCP_PORT_SERVER>>
                                /\ Sent.dhcp_message_type = "DhcpRelease"
                                /\ Sent.client_ip_address =
                                      state.assigned_address
                           ELSE /\ io'.pending.v.addr =
                                      <<BROADCAST, DHCP_PORT_SERVER>>
                                /\ Sent.dhcp_message_type = "DhcpDecline"]_vars

\* C15 witness: a Release was refused while the client, waiting for its first
\* offer, knew no server.
C15_Witness ==
    /\ ev.kind = "command"
    /\ ev.command = "Release"
    /\ ev.result = "AddrNotAvailable"
    /\ state.dhcp_state = "SelectingSent"
    /\ ~state.dhcp_server_id.some
    /\ ~io.pending.some

\* C13: at every point in the life of a backoff timer its un-randomized
\* timeout `current` is one of 4, 8, 16, 32, 64 seconds (it starts at 4, is
\* doubled on each tick and capped at 64), and the delay the timer sleeps is
\* one of current - 1, current, current + 1.
C13_BackoffCurrentCapped ==
    timer.kind = "Backoff" =>
        /\ timer.backoff.current \in {4, 8, 16, 32, 64}
        /\ timer.backoff.with_rand - timer.backoff.current
              \in (0 - AMPLITUDE)..AMPLITUDE

\* The time to the deadline when the sleep of the coming tick began.
Left == timer.deadline - timer.slept
Max(a, b) == IF a >= b THEN a ELSE b

C16_ClasslessRoutesHideRouters ==
    out.kind = "Configuration" =>
        LET ack == ev.response
            c == out.configuration
        IN  /\ ack.classless_static_routes.some
                  => c.routers = None /\ c.static_routes = None
            /\ ~ack.classless_static_routes.some
                  => /\ c.routers = ack.routers
                     /\ c.static_routes = ack.static_routes
            /\ c.your_ip_address = ack.your_ip_address
            /\ c.server_ip_address = ack.server_ip_address
            /\ c.subnet_mask = ack.subnet_mask
            /\ c.domain_name_servers = ack.domain_name_servers
            /\ c.classless_static_routes = ack.classless_static_routes

\* C16 witness: the Configuration of an Ack that carried a router and static
\* routes but no classless static routes, and no subnet mask.
C16_Witness ==
    /\ out.kind = "Configuration"
    /\ ev.response.routers.some
    /\ ev.response.static_routes.some
    /\ ~ev.response.classless_static_routes.some
    /\ ~ev.response.subnet_mask.some
    /\ out.configuration.routers = ev.response.routers

C19_ShortWriteIsWriteZero ==
    [][/\ (ev'.kind = "complete" /\ ev'.result = "short")
            => out' = Err("WriteZero")
       /\ (ev'.kind = "ready" /\ ev'.result = "short")
            => ev'.error = "WriteZero"]_vars

\* C18: within one endpoint the datagrams reach the wire in the order in
\* which start_send was called, none twice and none overtaken: what the
\* socket has written is, datagram by datagram, what start_send was given
\* first, and the one datagram started and not yet written is the pending
\* one, which is the next to be written.
C18_WrittenInStartOrder ==
    LET tx == udp.tx
        started == calls.started
        pending == server.socket.pending
    IN  /\ Len(started) = Len(tx) + (IF pending.some THEN 1 ELSE 0)
        /\ \A i \in 1..Len(tx) :
              /\ tx[i].addr = started[i].addr
              /\ tx[i].message = started[i].message
        /\ pending.some => pending.v = started[Len(started)]

\* C18 witness: the server has written an offer and then a Nak, and an Ack
\* is pending.
C18_Witness ==
    /\ Len(udp.tx) = 2
    /\ udp.tx[1].message.dhcp_message_type = "DhcpOffer"
    /\ udp.tx[2].message.dhcp_message_type = "DhcpNak"
    /\ server.socket.pending.some
    /\ server.socket.pending.v.message.dhcp_message_type = "DhcpAck"

\* The messages of the datagrams of `s` that parse, in order.
RECURSIVE Parsed(_)
Parsed(s) ==
    IF s = <<>> THEN <<>>
    ELSE IF Head(s).parses THEN <<Head(s).message>> \o Parsed(Tail(s))
    ELSE Parsed(Tail(s))
\* The datagrams read so far: those that arrived and are no longer held by
\* the socket.
Consumed(u, c) == SubSeq(c.arrived, 1, Len(c.arrived) - Len(u.rx))

SwitchToInvoked ==
    \/ ev'.kind = "switch"
    \/ state.dhcp_state = "Rebinding" /\ ev'.kind = "send"

\* C21: no outbound datagram is pending at the moment switch_to is invoked:
\* every switch_to(Raw) and switch_to(Udp) of the client, also when the
\* consumer queues Release, Decline and Inform commands between polls, happens
\* after the send started before it was flushed to the old socket.
C21_NoPendingAtSwitch ==
    [][SwitchToInvoked => ~io.pending.some]_vars

\* C21 witness: BOUND has just switched the socket from raw to UDP mode and
\* passed to RENEWING, nothing being pending.
C21_Witness ==
    /\ state.dhcp_state = "Renewing"
    /\ ev.kind = "switch"
    /\ ev.ok
    /\ io.mode = "Udp"
    /\ ~io.pending.some

\* The calls of the database and of start_send the last iteration of the
\* server loop made, in order.
DbCalls == SelectSeq(ev.effects, LAMBDA e : e.op \in DbOps)
Sends == SelectSeq(ev.effects, LAMBDA e : e.op = "start_send")
\* The last iteration handled a request that passed validate!.
Handled == ev.kind = "recv" /\ Message_validate(ev.request).ok
\* What the iteration left in the socket: the reply it handed to start_send,
\* unless the reply could not be encoded.
Handed ==
    IF Sends # <<>> /\ ev.ok
    THEN Some([addr |-> Sends[1].addr, message |-> Sends[1].message])
    ELSE None

\* C22: a request of any message type that carries a dhcp_server_id other
\* than the address of this server is dropped silently: no reply is sent,
\* the database is not called, and the server goes on.
C22_OtherServerDropped ==
    (/\ Handled
     /\ ev.request.dhcp_server_id.some
     /\ ev.request.dhcp_server_id.v # server_ip_address)
        => /\ ev.effects = <<>>
           /\ ~server.socket.pending.some
           /\ calls.started = <<>>
           /\ udp.tx = <<>>
           /\ ~server.done

\* C22 witness: a DhcpRelease naming another server was read and nothing was
\* done for it.
C22_Witness ==
    /\ Handled
    /\ ev.request.dhcp_message_type = "DhcpRelease"
    /\ ev.request.dhcp_server_id = Some(3)
    /\ ev.effects = <<>>

\* C23: for a DhcpRequest that carries this server's dhcp_server_id the
\* server calls database.assign(client_id, requested address, time) and no
\* other database operation, and hands exactly one reply to the socket: a
\* DhcpAck when assign succeeds, a DhcpNak when it fails, whatever the
\* failure is.
C23_SelectingAckOrNak ==
    (/\ Handled
     /\ ev.request.dhcp_message_type = "DhcpRequest"
     /\ ev.request.dhcp_server_id = Some(server_ip_address))
        => /\ DbCalls = <<DbCall("assign", Server_client_id(ev.request),
                                 ev.request.address_request.v,
                                 ev.request.address_time)>>
           /\ Len(Sends) = 1
           /\ Sends[1].message.dhcp_message_type =
                 IF ev.db.ok THEN "DhcpAck" ELSE "DhcpNak"
           /\ server.socket.pending = Handed
           /\ calls.started = IF ev.ok THEN <<Handed.v>> ELSE <<>>

\* C23 witness: assign failed with an error other than LeaseInvalid and the
\* DhcpNak is in the socket.
C23_Witness ==
    /\ Handled
    /\ ev.request.dhcp_message_type = "DhcpRequest"
    /\ ev.request.dhcp_server_id = Some(server_ip_address)
    /\ ev.db.error = "Other"
    /\ server.socket.pending.some
    /\ server.socket.pending.v.message.dhcp_message_type = "DhcpNak"

\* C24: for a DhcpRequest without dhcp_server_id and with ciaddr 0.0.0.0 the
\* server calls database.check and no other database operation (nothing that
\* assigns or renews), and replies with a DhcpAck when check succeeds, with a
\* DhcpNak only when check fails with LeaseInvalid, and with nothing for
\* every other failure.
C24_InitRebootAckNakOrSilence ==
    (/\ Handled
     /\ ev.request.dhcp_message_type = "DhcpRequest"
     /\ ~ev.request.dhcp_server_id.some
     /\ ev.request.client_ip_address = 0)
        => /\ DbCalls = <<DbCall("check", Server_client_id(ev.request),
                                 ev.request.address_request.v, None)>>
           /\ Len(Sends) = (IF ev.db.ok \/ ev.db.error = "LeaseInvalid"
                            THEN 1 ELSE 0)
           /\ ev.db.ok => Sends[1].message.dhcp_message_type = "DhcpAck"
           /\ ev.db.error = "LeaseInvalid"
                 => Sends[1].message.dhcp_message_type = "DhcpNak"
           /\ server.socket.pending = Handed
           /\ Sends = <<>> => ~server.done /\ udp.tx = <<>>

\* C24 witness: check failed with an error other than LeaseInvalid and the
\* server stayed silent.
C24_Witness ==
    /\ Handled
    /\ ev.request.dhcp_message_type = "DhcpRequest"
    /\ ~ev.request.dhcp_server_id.some
    /\ ev.request.client_ip_address = 0
    /\ ev.db.error = "Other"
    /\ Sends = <<>>
    /\ ~server.socket.pending.some

\* C25: every DhcpNak the server sends is addressed to 255.255.255.255:68,
\* whatever the ciaddr and the broadcast flag of the request are, and no ARP
\* entry is injected for it.
C25_NakIsBroadcast ==
    /\ (Handled /\ Sends # <<>>
           /\ Sends[1].message.dhcp_message_type = "DhcpNak")
          => /\ Sends[1].addr = <<BROADCAST, DHCP_PORT_CLIENT>>
             /\ \A i \in 1..Len(ev.effects) : ev.effects[i].op # "arp"
    /\ \A i \in 1..Len(udp.tx) :
          udp.tx[i].message.dhcp_message_type = "DhcpNak"
             => udp.tx[i].addr = <<BROADCAST, DHCP_PORT_CLIENT>>

\* C25 witness: the DhcpNak for a request with a ciaddr and without the
\* broadcast flag was written to the limited broadcast address.
C25_Witness ==
    /\ Len(udp.tx) = 1
    /\ udp.tx[1].message.dhcp_message_type = "DhcpNak"
    /\ udp.tx[1].addr = <<BROADCAST, DHCP_PORT_CLIENT>>
    /\ calls.yielded[1].client_ip_address = 100
    /\ ~calls.yielded[1].is_broadcast

\* C26: every DhcpOffer and DhcpAck the server sends goes to ciaddr:68 when
\* the ciaddr of the request is not zero; otherwise to 255.255.255.255:68
\* when the broadcast flag of the request is set; otherwise to yiaddr:68 by
\* hardware unicast, and then the ARP entry chaddr -> yiaddr has been
\* injected before the reply is handed to the socket.
C26_OfferAckDestination ==
    (/\ Handled
     /\ Sends # <<>>
     /\ Sends[1].message.dhcp_message_type \in {"DhcpOffer", "DhcpAck"})
        => LET request == ev.request
               reply == Sends[1].message
               n == Len(ev.effects)
               hw_unicast == request.client_ip_address = 0
                                 /\ ~request.is_broadcast
           IN  /\ Sends[1].addr =
                     <<IF request.client_ip_address # 0
                       THEN request.client_ip_address
                       ELSE IF request.is_broadcast THEN BROADCAST
                       ELSE reply.your_ip_address,
                       DHCP_PORT_CLIENT>>
               /\ ev.effects[n].op = "start_send"
               /\ hw_unicast
                     => \E i \in 1..(n - 1) :
                           ev.effects[i] =
                               ArpAdd(request.client_hardware_address,
                                      reply.your_ip_address, TRUE)
               /\ ~hw_unicast
                     => \A i \in 1..n : ev.effects[i].op # "arp"

ArpFailed ==
    \E i \in 1..Len(ev.effects) :
        ev.effects[i].op = "arp" /\ ~ev.effects[i].ok

\* C28: an error that arises while the server handles one request (a failure
\* of the database, a failure of the ARP injection, a reply that cannot be
\* encoded) drops that request only, or answers it with a DhcpNak where one
\* is required; the server keeps running.  The server future completes only
\* on an error of the transport.
C28_RequestErrorsKeepServerRunning ==
    /\ server.done
          => out.kind = "Err" /\ out.error \in {"Socket", "Other"}
    /\ Handled
          => /\ (ev.db # NotCalled /\ ~ev.db.ok /\ Sends # <<>>)
                   => Sends[1].message.dhcp_message_type = "DhcpNak"
             /\ ArpFailed => ~server.socket.pending.some
             /\ ~ev.ok => ~server.done /\ ~server.socket.pending.some

\* C29: the client identifier the server passes to the database is the
\* client_id option of the request when it has one, and otherwise the byte of
\* the hardware type followed by the hardware address; so a client that
\* sends no client_id option has the key of the same client sending the
\* default identifier of Client::new.
C29_ClientIdKey ==
    (Handled /\ DbCalls # <<>> /\ DbCalls[1].op # "freeze")
        => LET request == ev.request
               key == DbCalls[1].client_id
           IN  /\ request.client_id.some => key = request.client_id.v
               /\ ~request.client_id.some
                     => key = <<HardwareType_as_u8(request.hardware_type)>>
                                \o as_bytes(request.client_hardware_address)
               /\ (~request.client_id.some
                      /\ request.hardware_type = "Ethernet")
                     => key = Client_default_client_id(
                                  request.client_hardware_address)

\* C30: after any sequence of database operations, as the Discover, Request,
\* Decline, Release and Inform messages of any set of clients cause them,
\* each address is referenced by at most one lease that is neither Frozen
\* nor Released, and every leased address lies inside the static or the
\* dynamic range.
C30_OneActiveLeasePerAddress ==
    /\ \A a \in DbAddresses : Cardinality(Holder(database, a)) <= 1
    /\ \A c \in DbClients :
          database.leases[c].state # "None"
              => InRange(database.leases[c].address)

\* C30 witness: an allocation has just succeeded, all three clients hold a
\* lease, one of them confirmed, and an address was declined and frozen
\* meanwhile.
C30_Witness ==
    /\ \A c \in DbClients : Active(database.leases[c])
    /\ database.frozen # {}
    /\ \E c \in DbClients : database.leases[c].state = "Assigned"
    /\ ev.kind = "db"
    /\ ev.op = "allocate"
    /\ ev.ok

\* C31: allocate is idempotent per client.  A DhcpDiscover of a client that
\* holds a lease (offered or assigned, within its lifetime, not declined and
\* not released) is offered the address of that lease whatever it requests;
\* and the lease of a client is changed by no operation of another client,
\* only by its own operations, by a Decline of its address and by expiry.
C31_AllocateIdempotent ==
    [][/\ (ev'.kind = "db" /\ ev'.op = "allocate"
              /\ Active(database.leases[ev'.client_id]))
            => /\ ev'.ok
               /\ ev'.address = database.leases[ev'.client_id].address
               /\ database'.leases[ev'.client_id]
                     = database.leases[ev'.client_id]
       /\ \A c \in DbClients :
             (Active(database.leases[c])
                 /\ database'.leases[c] # database.leases[c])
               => \/ ev'.client_id = c
                  \/ ev'.op = "freeze"
                        /\ ev'.address = database.leases[c].address]_vars

\* C31 witness: a client was offered again the address of the lease it has
\* confirmed, while the other two clients hold leases of their own.
C31_Witness ==
    /\ ev.kind = "db"
    /\ ev.op = "allocate"
    /\ ev.ok
    /\ database.leases[ev.client_id] = Lease(ev.address, "Assigned")
    /\ \A c \in DbClients : Active(database.leases[c])

\* C32: after a DhcpDecline for an address no allocate returns that address
\* to any client, the declining one included, whether the address is
\* requested or chosen from the dynamic range: a frozen address stays frozen,
\* no lease that holds its address is on a frozen address, and no allocate
\* returns a frozen address.
C32_FrozenNeverAllocated ==
    [][/\ database.frozen \subseteq database'.frozen
       /\ (ev'.kind = "db" /\ ev'.op = "allocate" /\ ev'.ok)
            => /\ ev'.address \notin database.frozen
               /\ Active(database'.leases[ev'.client_id])
               /\ database'.leases[ev'.client_id].address = ev'.address
       /\ \A c \in DbClients :
             Active(database'.leases[c])
                => database'.leases[c].address \notin database'.frozen]_vars

\* C32 witness: the client whose lease was declined and frozen has been
\* offered another address.
C32_Witness ==
    /\ ev.kind = "db"
    /\ ev.op = "allocate"
    /\ ev.ok
    /\ database.frozen = {100}
    /\ database.leases[ev.client_id] = Lease(101, "Offered")
    /\ \A c \in DbClients \ {ev.client_id} : database.leases[c] = NoLease

\* ------------------------------------------- the lost DhcpRequest (RetrySpec)
\* integration_tests/src/main.rs: a client and a server over a channel that
\* drops the first DhcpRequest and delivers every other message.  No local
\* operation fails.  A delivered answer is at the socket when the client
\* polls it next, so the timer, which is polled only when io.poll_next is
\* pending, ticks only while nothing was delivered.  The first DhcpRequest is
\* the one sent while timer_ack has not ticked.
FirstRequestLost ==
    /\ state.timer_ack.some
    /\ state.timer_ack.v.current = BACKOFF_TIMEOUT_INITIAL

RetryInit == Init /\ state.dhcp_state = "Init"

Retry_Init == DhcpInit /\ ev'.ok
Retry_Selecting == DhcpSelecting /\ ev'.ok
Retry_Requesting == DhcpRequesting /\ ev'.ok
Retry_Complete == PollComplete /\ ev'.result = "sent"

\* The server's DhcpOffer to the delivered DhcpDiscover.
Retry_Offer ==
    /\ DhcpSelectingSent_Recv
    /\ ev'.response \in Offers
    /\ ev'.response.transaction_id = state.xid

\* Nothing answers the lost DhcpRequest: timer_ack fires.
Retry_Timeout ==
    /\ FirstRequestLost
    /\ DhcpRequestingSent_Timer

\* The server's DhcpAck to the retransmitted DhcpRequest.
Retry_Ack ==
    /\ ~FirstRequestLost
    /\ DhcpRequestingSent_Recv
    /\ ev'.response \in Acks
    /\ ev'.response.transaction_id = state.xid
    /\ ev'.response.your_ip_address = state.offered_address
    /\ ev'.response.dhcp_server_id = state.dhcp_server_id

RetryNext ==
    \/ Retry_Init
    \/ Retry_Selecting
    \/ Retry_Offer
    \/ Retry_Requesting
    \/ Retry_Complete
    \/ Retry_Timeout
    \/ Retry_Ack

\* The executor polls the client whenever a waker fired: the Sleep of a
\* Backoff always completes and a readable or writable socket wakes the task.
RetrySpec == RetryInit /\ [][RetryNext]_vars /\ WF_vars(RetryNext)

\* The retransmitted DhcpRequest has left the socket.
Retransmitted ==
    /\ state.dhcp_state = "RequestingSent"
    /\ ~io.pending.some
    /\ ~FirstRequestLost

C34_ReceiveErrorSkipped ==
    [][/\ ev'.kind = "ioerr"
            => /\ state.dhcp_state \in WaitingStates
               /\ state' = state
               /\ io' = io
               /\ options' = options
               /\ out' = NoItem
       /\ (ev.kind = "ioerr" /\ RecvCurrent
              /\ ev'.response.dhcp_message_type = "DhcpAck"
              /\ state.dhcp_state \in AwaitingAck)
            => /\ state'.dhcp_state = "Bound"
               /\ out' = Configuration(ev'.response)
       /\ (ev.kind = "ioerr" /\ RecvCurrent
              /\ ev'.response.dhcp_message_type = "DhcpOffer"
              /\ state.dhcp_state = "SelectingSent")
            => state'.dhcp_state = "Requesting"]_vars

\* C34 witness: a socket error was met while the client, holding a lease,
\* waits in REBINDING for an Ack with its expiration timer running.
C34_Witness ==
    /\ ev.kind = "ioerr"
    /\ state.dhcp_state = "RebindingSent"
    /\ state.assigned_address # 0
    /\ state.timer_expiration.some
    /\ out = NoItem

\* The DhcpRequest the client has just handed to its socket, as the server
\* reads it.
EmittedRequest == ClientMessage(io.pending.v.message, TRUE, state.is_broadcast)
EmitsRequest ==
    /\ ev.kind = "send"
    /\ ev.ok
    /\ io.pending.some
    /\ io.pending.v.message.dhcp_message_type = "DhcpRequest"

SendsNext == SelectSeq(ev'.effects, LAMBDA e : e.op = "start_send")
\* The requests the server does not answer: DhcpDecline, DhcpRelease, a
\* message that fails validation, a request for another server and a message
\* type the match ignores.
Unanswered(request) ==
    \/ ~Message_validate(request).ok
    \/ Server_for_other(request)
    \/ request.dhcp_message_type
          \notin {"DhcpDiscover", "DhcpRequest", "DhcpInform"}

\* C36: the server handles its requests strictly one after the other.  An
\* iteration reads a request only when nothing is pending, every reply
\* started before having been written out; the request it reads is the
\* first datagram in the socket that parses; it hands at most one reply to
\* send_response and none for a DhcpDecline, a DhcpRelease, an invalid
\* message, a message for another server or an ignored message type; and the
\* reply it starts answers the request it has just read.
C36_OneReplyInRequestOrder ==
    [][ev'.kind = "recv"
          => /\ ~server.socket.pending.some
             /\ Len(udp.tx) = Len(calls.started)
             /\ ev'.request = Parsed(udp.rx)[1]
             /\ calls'.yielded = Append(calls.yielded, ev'.request)
             /\ Len(SendsNext) <= 1
             /\ Unanswered(ev'.request) => SendsNext = <<>>
             /\ calls'.started =
                   IF SendsNext # <<>> /\ ev'.ok
                   THEN Append(calls.started,
                               [addr |-> SendsNext[1].addr,
                                message |-> SendsNext[1].message])
                   ELSE calls.started
             /\ SendsNext # <<>>
                   => SendsNext[1].message.transaction_id
                         = ev'.request.transaction_id]_vars

\* C36 witness: a DhcpDiscover, a DhcpDecline and a DhcpInform were read in
\* that order; the offer has been written, the Decline got no reply and the
\* Ack to the Inform is pending.
C36_Witness ==
    /\ Len(calls.yielded) = 3
    /\ calls.yielded[1].dhcp_message_type = "DhcpDiscover"
    /\ calls.yielded[2].dhcp_message_type = "DhcpDecline"
    /\ calls.yielded[3].dhcp_message_type = "DhcpInform"
    /\ Len(udp.tx) = 1
    /\ udp.tx[1].message.dhcp_message_type = "DhcpOffer"
    /\ server.socket.pending.some
    /\ server.socket.pending.v.message.dhcp_message_type = "DhcpAck"
    /\ Len(calls.started) = 2

\* ------------------------------------------------ no Offer comes (StarveSpec)
\* The client started in INIT on a network where no server answers its
\* DhcpDiscover: what reaches the socket in SELECTING is nothing the client
\* accepts as an Offer.  No local operation fails.
Starve_Recv ==
    /\ DhcpSelectingSent_Recv
    /\ state'.dhcp_state = "SelectingSent"

\* Nothing came: timer_offer fires.
Starve_Timer ==
    /\ state.dhcp_state = "SelectingSent"
    /\ DhcpSelectingSent_Timer

StarveNext ==
    \/ Retry_Init
    \/ Retry_Selecting
    \/ Retry_Complete
    \/ Starve_Recv
    \/ Starve_Timer

\* The executor polls the client when the socket can be written and when the
\* Sleep of timer_offer completes, which it always does.
StarveSpec ==
    /\ RetryInit
    /\ [][StarveNext]_vars
    /\ WF_vars(Retry_Init)
    /\ WF_vars(Retry_Selecting)
    /\ WF_vars(Retry_Complete)
    /\ WF_vars(Starve_Timer)

\* The client has just handed a DhcpDiscover to its socket.
EmitsDiscover ==
    /\ ev.kind = "send"
    /\ ev.ok
    /\ io.pending.some
    /\ io.pending.v.message.dhcp_message_type = "DhcpDiscover"

\* C37: when no acceptable Offer is ever delivered and the timers are
\* scheduled fairly, the client sends a DhcpDiscover again and again, for
\* ever: every backoff period ends in a retransmission or in a restart
\* through INIT that sends a new DhcpDiscover.
C37_DiscoverInfinitelyOften == []<>EmitsDiscover

SwitchTarget(dhcp_state) == IF dhcp_state = "Bound" THEN "Udp" ELSE "Raw"

\* C39: the socket holds one inner socket at a time and mode() is its kind.
\* A switch_to to the mode the socket is in changes nothing, makes no socket
\* and succeeds; a switch_to to the other mode that succeeds has made one
\* socket and mode() is the new mode; one that fails returns the error,
\* leaves the socket, its mode and what is pending as they were, and the
\* client stays in its DHCP state, so that the next poll runs the same arm
\* and calls switch_to again.
C39_SwitchIsAtomic ==
    /\ [](io.mode \in {"Raw", "Udp"})
    /\ [][ev'.kind = "switch"
            => LET mode == SwitchTarget(state.dhcp_state)
               IN  /\ mode = io.mode
                      => ev'.ok /\ ~ev'.created /\ io' = io
                   /\ (mode # io.mode /\ ev'.ok)
                      => /\ ev'.created
                         /\ io'.mode = mode
                         /\ io'.pending = io.pending
                   /\ ~ev'.ok
                      => /\ ~ev'.created
                         /\ mode # io.mode
                         /\ io' = io
                         /\ state' = state
                         /\ out'.kind = "Err"
                   /\ ev'.ok => state'.dhcp_state # state.dhcp_state]_vars
    /\ [][(ev.kind = "switch" /\ ~ev.ok /\ ev' # ev)
            => \/ ev'.kind \in {"switch", "command", "ready"}
               \/ state.dhcp_state = "Rebinding" /\ ev'.kind = "send"]_vars

\* C39 witness: in BOUND the switch to UDP mode failed: the socket is still
\* the raw one, the client is still in BOUND and the consumer got the error.
C39_Witness ==
    /\ ev.kind = "switch"
    /\ ~ev.ok
    /\ state.dhcp_state = "Bound"
    /\ io.mode = "Raw"
    /\ out = Err("Socket")

\* C40: the pending slot after a poll of the sink that found a datagram
\* pending.  Written whole: the slot is cleared, Ready(Ok).  The socket would
\* block: the datagram stays pending, Pending.  The OS refuses the send: the
\* datagram stays pending, the same datagram to be tried again, and the
\* error is returned.  Written in part: the slot is cleared and an error is
\* returned.  With nothing pending the poll is Ready(Ok).  A start_send whose
\* message cannot be encoded returns the error and leaves the slot empty; one
\* that can fills the slot with the item.
C40_PendingSlotOutcomes ==
    [][/\ ev'.kind = "poll"
            => CASE ev'.result = "sent" ->
                      ~io'.pending.some /\ out' = [kind |-> "Ok"]
                 [] ev'.result = "blocked" ->
                      /\ io.pending.some
                      /\ io' = io
                      /\ out' = [kind |-> "Pending"]
                 [] ev'.result = "error" ->
                      /\ io.pending.some
                      /\ io' = io
                      /\ out'.kind = "Err"
                 [] ev'.result = "short" ->
                      ~io'.pending.some /\ out'.kind = "Err"
                 [] OTHER ->
                      /\ ~io.pending.some
                      /\ io' = io
                      /\ out' = [kind |-> "Ok"]
       /\ ev'.kind = "start"
            => /\ ~io.pending.some
               /\ io'.mode = io.mode
               /\ IF ev'.ok
                  THEN io'.pending = Some(ev'.item) /\ out' = [kind |-> "Ok"]
                  ELSE ~io'.pending.some /\ out'.kind = "Err"]_vars

\* C40 witness: the OS refused the send of a pending DhcpRelease: poll_flush
\* returned the error and the DhcpRelease is still pending.
C40_Witness ==
    /\ ev.kind = "poll"
    /\ ev.op = "poll_flush"
    /\ ev.result = "error"
    /\ out = Err("Socket")
    /\ io.pending.some
    /\ io.pending.v.message.dhcp_message_type = "DhcpRelease"

====
